------------------------------- MODULE Ingest -------------------------------
(***************************************************************************)
(* ingest_channel of services/ingest.py, run by any number of sessions at  *)
(* once (first ingests, deep passes, overlapping cron batches), together   *)
(* with the calls of ChannelStore.  One action per await: the load, the    *)
(* INSERT of an unknown channel, the fetch, then, once the first flush of  *)
(* the write phase holds the row, each statement up to the commit.         *)
(***************************************************************************)
EXTENDS ChannelStore, FiniteSets

CONSTANT Pages      \* the ParsedChannel values a fetch may return

Page == [title : BOOLEAN,
         posts : UNION {[S -> [hash : Hashes, metric : Values \cup {None}]] :
                        S \in SUBSET Messages},
         counters : Values \cup {None}]

ASSUME PagesAreParsed == Pages \subseteq Page

VARIABLES
    clock,      \* the last time read by ingest_channel
    now,        \* its local variable now
    page,       \* its local variable parsed
    draft,      \* the rows its transaction has written and not committed
    report      \* the posts it counted as created and as edited

vars == <<storeVars, clock, now, page, draft, report>>
ingestVars == <<clock, now, page, draft, report>>

Draft == [posts : [Messages -> Hashes \cup {None}],
          metrics : [Messages -> Points \cup {None}],
          counters : Points \cup {None}]

NoDraft == [posts |-> [m \in Messages |-> None],
            metrics |-> [m \in Messages |-> None],
            counters |-> None]

NoReport == [created |-> {}, edited |-> {}]

WritePcs == {"counting", "upserting", "measuring", "sizing", "committing"}
IngestPcs == {"inserting", "fetching", "failing", "flushing"} \cup WritePcs

Init ==
    /\ StoreInit
    /\ clock = 0
    /\ now = [s \in Sessions |-> None]
    /\ page = [s \in Sessions |-> None]
    /\ draft = [s \in Sessions |-> NoDraft]
    /\ report = [s \in Sessions |-> NoReport]
-----------------------------------------------------------------------------
(* get_or_create_channel, then now = datetime.now(UTC) *)

(* Bound: a call starts only if MaxClock leaves it, and those before it, a time. *)
Room == clock + Cardinality({s \in Sessions : pc[s] = "inserting"}) < MaxClock

Tick(s) ==
    /\ clock < MaxClock
    /\ clock' = clock + 1
    /\ now' = [now EXCEPT ![s] = clock + 1]

IngestLoad(s, u) ==
    /\ pc[s] = "idle"
    /\ Room
    /\ rows[u] # None
    /\ Loaded(s, u, rows[u], "fetching")
    /\ Tick(s)
    /\ UNCHANGED <<tables, page, draft, report>>

IngestUnknown(s, u) ==
    /\ pc[s] = "idle"
    /\ Room
    /\ rows[u] = None
    /\ Loaded(s, u, None, "inserting")
    /\ UNCHANGED <<tables, ingestVars>>

(* session.flush() of the new Channel; the row is not committed yet. *)
IngestInsert(s) ==
    /\ pc[s] = "inserting"
    /\ rows[user[s]] = None
    /\ lock[user[s]] = None
    /\ \E i \in FreshIds :
          /\ loaded' = [loaded EXCEPT ![s] = Created(i)]
          /\ object' = [object EXCEPT ![s] = Created(i)]
    /\ lock' = [lock EXCEPT ![user[s]] = s]
    /\ pc' = [pc EXCEPT ![s] = "fetching"]
    /\ Tick(s)
    /\ UNCHANGED <<tables, user, result, page, draft, report>>
-----------------------------------------------------------------------------
(* The fetch and the verdict on it *)

Goto(s, step) == pc' = [pc EXCEPT ![s] = step]

Edit(s, row) == object' = [object EXCEPT ![s] = row]

IsPrivate(p) == ~p.title /\ DOMAIN p.posts = {}

FetchFails(s) ==
    /\ pc[s] = "fetching"
    /\ \E status \in FailedStatuses \ {"private"} :
          Edit(s, Failed(loaded[s], status, now[s]))
    /\ Goto(s, "failing")
    /\ UNCHANGED <<tables, lock, user, loaded, result, ingestVars>>

FetchReturns(s) ==
    /\ pc[s] = "fetching"
    /\ \E p \in Pages :
          \/ /\ IsPrivate(p)
             /\ Edit(s, Failed(loaded[s], "private", now[s]))
             /\ Goto(s, "failing")
             /\ UNCHANGED page
          \/ /\ ~IsPrivate(p)
             /\ Edit(s, Succeeded(loaded[s], now[s]))
             /\ Goto(s, "flushing")
             /\ page' = [page EXCEPT ![s] = p]
    /\ UNCHANGED <<tables, lock, user, loaded, result, clock, now, draft, report>>
-----------------------------------------------------------------------------
(* End of an ingest, with what it kept in memory *)

Forget(s) ==
    /\ now' = [now EXCEPT ![s] = None]
    /\ page' = [page EXCEPT ![s] = None]
    /\ draft' = [draft EXCEPT ![s] = NoDraft]
    /\ report' = [report EXCEPT ![s] = NoReport]
    /\ UNCHANGED clock

(* _record_failure: the flush and the commit of session.commit() *)
RecordFailure(s) ==
    /\ pc[s] = "failing"
    /\ Free(s)
    /\ ~Stale(s)
    /\ Publish(s)
    /\ End(s, object[s].status)
    /\ Forget(s)
    /\ UNCHANGED <<posts, metrics, counters>>

(* The UPDATE of the first flush matches no row: StaleDataError. *)
FlushRaises(s) ==
    /\ pc[s] \in {"failing", "flushing"}
    /\ Free(s)
    /\ Stale(s)
    /\ End(s, "stale_data")
    /\ Forget(s)
    /\ UNCHANGED tables

(* Any other exception at any await, or the end of the process: rollback. *)
Raise(s) ==
    /\ pc[s] # "idle"
    /\ End(s, "raised")
    /\ Forget(s)
    /\ UNCHANGED tables
-----------------------------------------------------------------------------
(* Mutant: the first flush of the write phase does not hold the row. *)
FlushUnlocked(s) ==
    /\ pc[s] = "flushing"
    /\ Free(s)
    /\ ~Stale(s)
    /\ Goto(s, "counting")
    /\ UNCHANGED <<tables, lock, user, loaded, object, result, ingestVars>>

(***************************************************************************)
(* The write phase.  The first statement of it makes the session flush the *)
(* edited Channel, whose last_fetch_at always differs: the UPDATE takes    *)
(* the row, and keeps it to the end of the transaction.                    *)
(***************************************************************************)
Flush(s) ==
    /\ pc[s] = "flushing"
    /\ Free(s)
    /\ ~Stale(s)
    /\ lock' = [lock EXCEPT ![user[s]] = s]
    /\ Goto(s, "counting")
    /\ UNCHANGED <<tables, user, loaded, object, result, ingestVars>>

Id(s) == loaded[s].id

(* Mutant: a new post counts as edited too. *)
CountPostsTwice(s) ==
    /\ pc[s] = "counting"
    /\ LET stored == posts[Id(s)]
           parsed == page[s].posts
       IN  report' = [report EXCEPT ![s] =
              [created |-> {m \in DOMAIN parsed : stored[m] = None},
               edited |-> {m \in DOMAIN parsed : stored[m] # parsed[m].hash}]]
    /\ Goto(s, "upserting")
    /\ UNCHANGED <<tables, lock, user, loaded, object, result, clock, now, page, draft>>

(* _upsert_posts: the SELECT of the hashes already stored *)
CountPosts(s) ==
    /\ pc[s] = "counting"
    /\ LET stored == posts[Id(s)]
           parsed == page[s].posts
       IN  report' = [report EXCEPT ![s] =
              [created |-> {m \in DOMAIN parsed : stored[m] = None},
               edited |-> {m \in DOMAIN parsed : stored[m] \notin {None, parsed[m].hash}}]]
    /\ Goto(s, "upserting")
    /\ UNCHANGED <<tables, lock, user, loaded, object, result, clock, now, page, draft>>

(* _upsert_posts: INSERT ... ON CONFLICT DO UPDATE *)
UpsertPosts(s) ==
    /\ pc[s] = "upserting"
    /\ LET parsed == page[s].posts
       IN  draft' = [draft EXCEPT ![s].posts =
              [m \in Messages |-> IF m \in DOMAIN parsed THEN parsed[m].hash ELSE None]]
    /\ Goto(s, "measuring")
    /\ UNCHANGED <<tables, lock, user, loaded, object, result, clock, now, page, report>>

(* Mutant: the value is compared with every point. *)
SeenBefore(history, value) ==
    \E k \in 1 .. Len(history) : history[k].value = value

(* _snapshot_unchanged, on the point with the greatest id *)
Unchanged(history, value) ==
    history # <<>> /\ history[Len(history)].value = value

(* The point a snapshot writer adds for value, or None. *)
Snapshot(history, value, time) ==
    IF value = None \/ Unchanged(history, value) THEN None
    ELSE [at |-> time, value |-> value]

(* _write_post_metric_snapshots *)
WriteMetrics(s) ==
    /\ pc[s] = "measuring"
    /\ LET parsed == page[s].posts
       IN  draft' = [draft EXCEPT ![s].metrics =
              [m \in Messages |->
                  IF m \in DOMAIN parsed
                  THEN Snapshot(metrics[Id(s)][m], parsed[m].metric, now[s])
                  ELSE None]]
    /\ Goto(s, "sizing")
    /\ UNCHANGED <<tables, lock, user, loaded, object, result, clock, now, page, report>>

(* _write_channel_snapshot *)
WriteCounters(s) ==
    /\ pc[s] = "sizing"
    /\ draft' = [draft EXCEPT ![s].counters =
                    Snapshot(counters[Id(s)], page[s].counters, now[s])]
    /\ Goto(s, "committing")
    /\ UNCHANGED <<tables, lock, user, loaded, object, result, clock, now, page, report>>

(* Mutant: the last point is overwritten. *)
Overwritten(history, point) ==
    IF point = None THEN history ELSE <<point>>

Extended(history, point) ==
    IF point = None THEN history ELSE Append(history, point)

Commit(s) ==
    /\ pc[s] = "committing"
    /\ LET i == Id(s)
           new == draft[s]
       IN  /\ posts' = [posts EXCEPT ![i] =
                  [m \in Messages |-> IF new.posts[m] = None THEN posts[i][m]
                                      ELSE new.posts[m]]]
           /\ metrics' = [metrics EXCEPT ![i] =
                  [m \in Messages |-> Extended(metrics[i][m], new.metrics[m])]]
           /\ counters' = [counters EXCEPT ![i] = Extended(counters[i], new.counters)]
    /\ Publish(s)
    /\ End(s, "active")
    /\ Forget(s)
-----------------------------------------------------------------------------
StoreStep(s) ==
    /\ \/ \E u \in Usernames : \/ AddLookup(s, u) \/ AddRejected(s, u)
                               \/ MarkLookup(s, u) \/ MarkUnknown(s, u)
       \/ AddCommit(s) \/ InsertRaises(s) \/ MarkCommit(s)
    /\ UNCHANGED ingestVars

Begin(s) == \E u \in Usernames : IngestLoad(s, u) \/ IngestUnknown(s, u)

(* The steps that may wait for another transaction to end *)
Acquire(s) == IngestInsert(s) \/ RecordFailure(s) \/ FlushRaises(s) \/ Flush(s)

Advance(s) ==
    \/ FetchFails(s) \/ FetchReturns(s)
    \/ CountPosts(s) \/ UpsertPosts(s) \/ WriteMetrics(s) \/ WriteCounters(s)
    \/ Commit(s)

Next ==
    \/ \E s \in Sessions : \/ StoreStep(s) \/ Begin(s) \/ Acquire(s) \/ Advance(s)
                           \/ Raise(s)
    \/ \E u \in Usernames : Delete(u) /\ UNCHANGED ingestVars

Spec == Init /\ [][Next]_vars
-----------------------------------------------------------------------------
(* Fairness: statements complete, fetches time out, locks are granted in turn. *)

StoreCommit(s) == (AddCommit(s) \/ InsertRaises(s) \/ MarkCommit(s)) /\ UNCHANGED ingestVars

FairSpec == /\ Spec
            /\ \A s \in Sessions : /\ WF_vars(Advance(s))
                                  /\ SF_vars(Acquire(s))
                                  /\ SF_vars(StoreCommit(s))
-----------------------------------------------------------------------------
(***************************************************************************)
(* Every variable keeps its type; a program counter is a step of a call.   *)
(***************************************************************************)
TypeOK ==
    /\ rows \in [Usernames -> Row \cup {None}]
    /\ posts \in [RowIds -> [Messages -> Hashes \cup {None}]]
    /\ metrics \in [RowIds -> [Messages -> Seq(Points)]]
    /\ counters \in [RowIds -> Seq(Points)]
    /\ lock \in [Usernames -> Sessions \cup {None}]
    /\ pc \in [Sessions -> StorePcs \cup IngestPcs]
    /\ user \in [Sessions -> Usernames \cup {None}]
    /\ loaded \in [Sessions -> Row \cup {None}]
    /\ object \in [Sessions -> Row \cup {None}]
    /\ result \in [Sessions -> StoreResults \cup Statuses \cup {"raised"}]
    /\ clock \in 0 .. MaxClock
    /\ now \in [Sessions -> Times \cup {None}]
    /\ page \in [Sessions -> Pages \cup {None}]
    /\ draft \in [Sessions -> Draft]
    /\ report \in [Sessions -> [created : SUBSET Messages, edited : SUBSET Messages]]

RepeatFree(history) ==
    \A k \in 1 .. Len(history) - 1 : history[k].value # history[k + 1].value

(***************************************************************************)
(* "written only when the value changed since the last snapshot" (README,  *)
(* Data model): however many ingests of a channel overlap, no two points   *)
(* of a post or of a channel that follow each other are equal.             *)
(***************************************************************************)
NoRepeatedSnapshot ==
    \A i \in RowIds : /\ RepeatFree(counters[i])
                      /\ \A m \in Messages : RepeatFree(metrics[i][m])

(***************************************************************************)
(* No ingest, begun before or after a delete, leaves a post or a snapshot  *)
(* behind for a channel that is not in the table, and no snapshot is kept  *)
(* for a post that is not.                                                 *)
(***************************************************************************)
Owned(i) == \E u \in Usernames : rows[u] # None /\ rows[u].id = i

NoOrphans ==
    \A i \in RowIds :
        /\ counters[i] # <<>> => Owned(i)
        /\ \A m \in Messages : /\ posts[i][m] # None => Owned(i)
                               /\ metrics[i][m] # <<>> => posts[i][m] # None

(***************************************************************************)
(* An ingest that returns success has published what it fetched: in the    *)
(* state it commits, the content hash of each fetched post, the last       *)
(* metrics of each measured post and the last counters are those of its    *)
(* page.  The skipped snapshots were compared with what is still the last. *)
(***************************************************************************)
LastIs(history, value) ==
    value # None => history # <<>> /\ history[Len(history)].value = value

PublishedFetch(s) ==
    LET i == loaded[s].id
        p == page[s]
    IN  /\ \A m \in DOMAIN p.posts : /\ posts'[i][m] = p.posts[m].hash
                                     /\ LastIs(metrics'[i][m], p.posts[m].metric)
        /\ LastIs(counters'[i], p.counters)
        /\ rows'[user[s]] # None /\ rows'[user[s]].id = i

CommitPublishesFetch ==
    [][\A s \in Sessions : pc[s] = "committing" /\ result'[s] = "active" => PublishedFetch(s)]_vars

(***************************************************************************)
(* posts_created and posts_edited of an IngestResult, counted by a SELECT  *)
(* some statements before the commit, are exactly the posts that the       *)
(* commit adds and the posts whose content it changes.                     *)
(***************************************************************************)
CountsExact ==
    [][\A s \in Sessions : pc[s] = "committing" /\ result'[s] = "active" =>
          LET i == loaded[s].id
              altered == {m \in Messages : posts'[i][m] # posts[i][m]}
          IN  /\ report[s].created = {m \in altered : posts[i][m] = None}
              /\ report[s].edited = {m \in altered : posts[i][m] # None}]_vars

(***************************************************************************)
(* Each history evolves as MetricHistory promises, whatever overlaps.      *)
(***************************************************************************)
Histories ==
    [x \in RowIds \X (Messages \cup {None}) |->
        IF x[2] = None THEN counters[x[1]] ELSE metrics[x[1]][x[2]]]

History == INSTANCE MetricHistory WITH
              Subjects <- RowIds \X (Messages \cup {None}), hist <- Histories

ImplementsHistory == History!Spec

(***************************************************************************)
(* A call that has begun ends: no ingest, add or mark waits forever for a  *)
(* row that others keep taking.                                            *)
(***************************************************************************)
EveryCallEnds == \A s \in Sessions : pc[s] # "idle" ~> pc[s] = "idle"

(***************************************************************************)
(* What tests/test_ingest.py:255 asserts of a recovery: once an ingest has *)
(* returned active, the row's last_fetch_status says so.                   *)
(***************************************************************************)
SuccessLeavesActive ==
    [][\A s \in Sessions : pc[s] = "committing" /\ result'[s] = "active" =>
          rows'[user[s]].fetchStatus = "active"]_vars
=============================================================================
