-------------------------- MODULE IngestInvariant --------------------------
(***************************************************************************)
(* The inductive invariant of Ingest: what a session knows at each step of *)
(* its call, and what holding the row of a channel protects.  Model        *)
(* checked here, proved in IngestProofs.                                   *)
(***************************************************************************)
EXTENDS Ingest

RowPcs == (StorePcs \cup IngestPcs) \ {"idle", "adding", "inserting"}
PagePcs == {"flushing"} \cup WritePcs
HoldPcs == {"fetching", "failing", "flushing"} \cup WritePcs

(* A call that is past a step has what the step gave it. *)
PcInv ==
    \A s \in Sessions :
        /\ pc[s] # "idle" => user[s] \in Usernames
        /\ pc[s] \in RowPcs => loaded[s] \in Row /\ object[s] \in Row
        /\ pc[s] \in HoldPcs => now[s] \in Times
        /\ pc[s] \in PagePcs => page[s] \in Pages
        /\ pc[s] \in RowPcs => object[s].id = loaded[s].id

(* Only a call on that channel holds its row, and the write phase holds it. *)
LockInv ==
    /\ \A u \in Usernames, s \in Sessions :
          lock[u] = s => user[s] = u /\ pc[s] \in HoldPcs
    /\ \A s \in Sessions : pc[s] \in WritePcs => lock[user[s]] = s

Holds(s, u) == lock[u] = s

(* Ids belong to one channel, counting the row a holder has not committed. *)
IdInv ==
    /\ \A u, v \in Usernames :
          rows[u] # None /\ rows[v] # None /\ rows[u].id = rows[v].id => u = v
    /\ \A s \in Sessions, u, v \in Usernames :
          Holds(s, u) /\ rows[v] # None /\ rows[v].id = loaded[s].id => u = v
    /\ \A s, t \in Sessions, u, v \in Usernames :
          Holds(s, u) /\ Holds(t, v) /\ loaded[s].id = loaded[t].id => u = v

(* The row a session holds is the one it loaded, until the end. *)
HeldInv ==
    \A s \in Sessions, u \in Usernames :
        Holds(s, u) /\ rows[u] # None => rows[u].id = loaded[s].id

(* What the transaction wrote still fits what is committed. *)
Fits(history, point) == point # None => ~Unchanged(history, point.value)

DraftOf(s) ==
    /\ pc[s] \notin {"measuring", "sizing", "committing"} => draft[s] = NoDraft
    /\ pc[s] \in WritePcs =>
          /\ Fits(counters[loaded[s].id], draft[s].counters)
          /\ \A m \in Messages :
                /\ Fits(metrics[loaded[s].id][m], draft[s].metrics[m])
                /\ draft[s].metrics[m] # None => draft[s].posts[m] # None
    /\ pc[s] = "measuring" =>
          /\ draft[s].counters = None
          /\ \A m \in DOMAIN page[s].posts : draft[s].posts[m] # None

DraftInv == \A s \in Sessions : DraftOf(s)

(***************************************************************************)
(* While a session is in the write phase of an ingest, nobody else changes *)
(* its channel's row, posts or snapshots: its reads stay true to the       *)
(* commit, the row is still the one it loaded, and ids are not shared.     *)
(***************************************************************************)
IngestInv == PcInv /\ LockInv /\ IdInv /\ HeldInv /\ DraftInv

IInv == TypeOK /\ IngestInv /\ NoRepeatedSnapshot /\ NoOrphans
=============================================================================
