---------------------------- MODULE RefreshBatch ----------------------------
(***************************************************************************)
(* refresh_due_channels of services/refresh.py as a queue: a call lists    *)
(* the channels that are due, the least recently fetched first, and works  *)
(* through the list until its time budget is used up.  Calls may overlap   *)
(* (two triggers are deployed), and other jobs ingest channels meanwhile.  *)
(* What an ingest writes is for Ingest, what a list read earlier can do to *)
(* a channel withdrawn since is for ChannelLifecycle.                      *)
(***************************************************************************)
EXTENDS Naturals, FiniteSets

CONSTANTS
    Usernames,
    Broken,         \* channels whose ingest raises in a call, so that it writes nothing
    Watched,        \* the channel whose waiting is counted
    Calls,          \* calls in flight
    Jobs,           \* ingests of other jobs in flight: first ingests and deep passes
    Idle,
    PerCall,        \* how many channels a call gets through in its time budget, at least
    BatchLimit      \* batch_limit

Ingests == Calls \cup Jobs

ASSUME ActorsDiffer == /\ Usernames \cap (Ingests \cup {Idle}) = {}
                       /\ Calls \cap Jobs = {}
ASSUME SetsAreFinite == IsFiniteSet(Usernames) /\ IsFiniteSet(Ingests)
ASSUME BrokenAreChannels == Broken \subseteq Usernames /\ Watched \in Usernames
ASSUME LimitCoversBudget == {PerCall, BatchLimit} \subseteq Nat \ {0} /\ PerCall <= BatchLimit

(***************************************************************************)
(* queue stands for channels.last_fetch_at.  It has the channels whose     *)
(* status is active or error, at the value of that column, and the ingests *)
(* under way, at the time they have read to put there; to each it gives    *)
(* those that come before it.  A list keeps the order it was read in.      *)
(***************************************************************************)
VARIABLES
    queue,
    due,            \* usernames a call has listed and not yet begun
    current,        \* the channel that is ingested
    processed,      \* succeeded plus failed
    missed          \* history: calls that have ended since Watched was last fetched

vars == <<queue, due, current, processed, missed>>

Nothing == [e \in {} |-> {}]

Without(order, gone) == [e \in DOMAIN order \ gone |-> order[e] \ gone]

(* e comes last. *)
WithLast(order, e) ==
    [x \in DOMAIN order \cup {e} |-> IF x = e THEN DOMAIN order ELSE order[x]]

(* u takes the place of i. *)
WithInstead(order, i, u) ==
    [x \in (DOMAIN order \ {i}) \cup {u} |->
        {IF y = i THEN u ELSE y : y \in order[IF x = u THEN i ELSE x]}]

Init ==
    /\ queue = Nothing
    /\ due = [c \in Calls |-> Nothing]
    /\ current = [i \in Ingests |-> Idle]
    /\ processed = [c \in Calls |-> 0]
    /\ missed = 0

Refreshable == DOMAIN queue \ Ingests
-----------------------------------------------------------------------------
(* Other jobs *)

(* mark_pending or delete_channel *)
Withdrawn(u) ==
    /\ u \in Refreshable
    /\ queue' = Without(queue, {u})
    /\ missed' = IF u = Watched THEN 0 ELSE missed
    /\ UNCHANGED <<due, current, processed>>

(* ingest_channel up to its fetch *)
Begun(i, u) ==
    /\ current[i] = Idle
    /\ current' = [current EXCEPT ![i] = u]
    /\ queue' = WithLast(queue, i)

(***************************************************************************)
(* The commit of a success or a failure, with the time that was read       *)
(* before the fetch; by then the status may be one to refresh, or not.     *)
(***************************************************************************)
Committed(i) ==
    queue' \in {Without(queue, {i, current[i]}),
                WithInstead(Without(queue, {current[i]}), i, current[i])}

(* The ingest raised, and its session rolls back. *)
RolledBack(i) == queue' = Without(queue, {i})

JobBegins(j, u) == Begun(j, u) /\ UNCHANGED <<due, processed, missed>>

JobEnds(j) ==
    /\ current[j] # Idle
    /\ \/ /\ Committed(j)
          /\ missed' = IF current[j] = Watched \/ Watched \notin DOMAIN queue' THEN 0 ELSE missed
       \/ RolledBack(j) /\ UNCHANGED missed
    /\ current' = [current EXCEPT ![j] = Idle]
    /\ UNCHANGED <<due, processed>>
-----------------------------------------------------------------------------
(* Mutant: the order of the list is turned around. *)
DueNewestFirst ==
    LET order == Without(queue, Ingests)
    IN  [u \in DOMAIN order |-> {v \in DOMAIN order : u \in order[v]}]

(* ORDER BY last_fetch_at *)
Due == Without(queue, Ingests)

(* list_refreshable: the first batch_limit of them, or all *)
List(c) ==
    /\ current[c] = Idle /\ DOMAIN due[c] = {}
    /\ Refreshable # {}
    /\ \E first \in SUBSET Refreshable :
          /\ \A u \in first : Due[u] \subseteq first
          /\ \/ Cardinality(first) = BatchLimit
             \/ Cardinality(first) < BatchLimit /\ first = Refreshable
          /\ due' = [due EXCEPT ![c] = Without(Due, Refreshable \ first)]
    /\ UNCHANGED <<queue, current, processed, missed>>

(* The next channel *)
Begin(c) ==
    /\ \E u \in DOMAIN due[c] :
          /\ due[c][u] = {}
          /\ Begun(c, u)
          /\ due' = [due EXCEPT ![c] = Without(@, {u})]
    /\ UNCHANGED <<processed, missed>>

(***************************************************************************)
(* The call is done with its channel; if its list or its time budget is    *)
(* used up it ends, and has missed the channels that have not been fetched.*)
(***************************************************************************)
Ended(c, fetched) ==
    /\ current' = [current EXCEPT ![c] = Idle]
    /\ \/ UNCHANGED due
       \/ processed[c] + 1 >= PerCall /\ due' = [due EXCEPT ![c] = Nothing]
    /\ processed' = [processed EXCEPT ![c] = IF DOMAIN due'[c] = {} THEN 0 ELSE @ + 1]
    /\ missed' = IF Watched \in fetched \/ Watched \notin DOMAIN queue' THEN 0
                 ELSE IF DOMAIN due'[c] = {} THEN missed + 1 ELSE missed

Commit(c) ==
    /\ current[c] \in Usernames \ Broken
    /\ Committed(c)
    /\ Ended(c, {current[c]})

(* Mutant: the session of an ingest that raised stays open. *)
RaiseUnclosed(c) ==
    /\ current[c] \in Broken
    /\ UNCHANGED queue
    /\ Ended(c, {})

Raise(c) ==
    /\ current[c] \in Broken
    /\ RolledBack(c)
    /\ Ended(c, {})
-----------------------------------------------------------------------------
Call(c) == List(c) \/ Begin(c) \/ Commit(c) \/ Raise(c)

Next == \/ \E u \in Usernames : Withdrawn(u) \/ \E j \in Jobs : JobBegins(j, u)
        \/ \E j \in Jobs : JobEnds(j)
        \/ \E c \in Calls : Call(c)

Spec == Init /\ [][Next]_vars
-----------------------------------------------------------------------------
(***************************************************************************)
(* The queue and the lists are orders (of each two elements one comes      *)
(* before the other), an ingest is in the queue while it is under way, and *)
(* a call gets through no more than its batch_limit.                       *)
(***************************************************************************)
Ordered(order) ==
    /\ order \in [DOMAIN order -> SUBSET DOMAIN order]
    /\ \A x \in DOMAIN order : x \notin order[x] /\ \A y \in order[x] : order[y] \subseteq order[x]
    /\ \A x, y \in DOMAIN order : x = y \/ x \in order[y] \/ y \in order[x]

TypeOK ==
    /\ DOMAIN queue \subseteq Usernames \cup Ingests /\ Ordered(queue)
    /\ DOMAIN due = Calls
    /\ \A c \in Calls : DOMAIN due[c] \subseteq Usernames /\ Ordered(due[c])
    /\ current \in [Ingests -> Usernames \cup {Idle}]
    /\ \A i \in Ingests : i \in DOMAIN queue <=> current[i] # Idle
    /\ processed \in [Calls -> 0 .. BatchLimit]
    /\ missed \in Nat

(***************************************************************************)
(* No channel starves: as long as fewer channels raise than a call gets    *)
(* through, a healthy one is left out by few calls in a row, whatever      *)
(* order overlapping calls and other jobs commit in.  Alone, calls need    *)
(* Turns to come round to it, after one that may have begun before it was  *)
(* last fetched; overlapping calls work through the same list side by side *)
(* and, like a job, may set a channel back to an earlier place.            *)
(***************************************************************************)
Turns == (Cardinality(Usernames \ Broken) - 1) \div (PerCall - Cardinality(Broken))

NobodyStarves ==
    LET overlap == Cardinality(Calls) IN
    Watched \notin Broken /\ Cardinality(Broken) < PerCall =>
        missed <= overlap * Turns + (overlap * (overlap + 1)) \div 2 + overlap * Cardinality(Jobs)
=============================================================================
