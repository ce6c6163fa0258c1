-------------------------- MODULE ChannelLifecycle --------------------------
(***************************************************************************)
(* A channel from the add form to a settled row: the requests of           *)
(* web/routes_api.py, the background job each of them leaves behind        *)
(* (web/background.py), the cron batches of services/refresh.py, and the   *)
(* row of the channel list that polls the server.                          *)
(*                                                                         *)
(* An ingest is two steps here, the load and the commit, which writes the  *)
(* status only if it differs from the loaded one: module Ingest shows that *)
(* the write phase of an ingest has the channel to itself.                 *)
(***************************************************************************)
EXTENDS Naturals, FiniteSets

CONSTANTS
    Usernames,
    Workers,        \* requests in flight, each with the job that follows it
    Crons,          \* POST /internal/refresh calls in flight
    RowIds,
    None,
    Faults,         \* TRUE: calls may raise and the process may restart
    MaxRequests     \* bound: how many add and retry requests arrive

Procs == Workers \cup Crons

ASSUME NoneIsNoProc == None \notin Procs \cup Usernames
ASSUME WorkersAreNoCrons == Workers \cap Crons = {}
ASSUME FaultsIsBool == Faults \in BOOLEAN
ASSUME MaxRequestsIsNat == MaxRequests \in Nat

VARIABLES
    rows,       \* channels: id and status of the committed row, or None
    inserted,   \* the process with an uncommitted INSERT of a username, or None
    progress,   \* the usernames in _backfill_progress
    view,       \* the row in the browser: absent, polling or static
    pc, user,   \* where each process is, and its channel
    loaded,     \* the row its ingest loaded
    seen,       \* the status its get_overview read
    job,        \* whether the request has added a background task
    full,       \* whether the fast pass hit its post cap
    due,        \* the usernames a cron batch still has to refresh
    requests,   \* requests so far
    faulty      \* history: whether something has raised or restarted

store == <<rows, inserted, progress>>
bounds == <<requests, faulty>>
locals == <<user, loaded, seen, job, full>>
vars == <<rows, inserted, progress, view, pc, user, loaded, seen, job, full, due, bounds>>

FailedStatuses == {"error", "not_found", "private"}
Statuses == {"pending", "active"} \cup FailedStatuses

(* REFRESHABLE_STATUSES *)
Refreshable == {"active", "error"}

Row == [id : RowIds, status : Statuses]

WorkerPcs == {"idle", "marking", "responding", "rendering", "queued", "fast", "gap", "classifying",
              "chained", "deep", "popping"}
CronPcs == {"idle", "batch", "refreshing"}
IngestPcs == {"fast", "deep", "refreshing"}

Init ==
    /\ rows = [u \in Usernames |-> None]
    /\ inserted = [u \in Usernames |-> None]
    /\ progress = {}
    /\ view = [u \in Usernames |-> "absent"]
    /\ pc = [p \in Procs |-> "idle"]
    /\ user = [p \in Procs |-> None]
    /\ loaded = [p \in Procs |-> None]
    /\ seen = [p \in Procs |-> None]
    /\ job = [p \in Procs |-> FALSE]
    /\ full = [p \in Procs |-> FALSE]
    /\ due = [c \in Crons |-> {}]
    /\ requests = 0
    /\ faulty = FALSE

Goto(p, step) == pc' = [pc EXCEPT ![p] = step]

(* The request or job of p ends; what it had in memory is gone. *)
Finish(p, step) ==
    /\ pc' = [pc EXCEPT ![p] = step]
    /\ user' = [user EXCEPT ![p] = None]
    /\ loaded' = [loaded EXCEPT ![p] = None]
    /\ seen' = [seen EXCEPT ![p] = None]
    /\ job' = [job EXCEPT ![p] = FALSE]
    /\ full' = [full EXCEPT ![p] = FALSE]

FreshIds == {i \in RowIds : /\ \A u \in Usernames : rows[u] # None => rows[u].id # i
                            /\ \A p \in Procs : loaded[p] # None => loaded[p].id # i}

Request == requests < MaxRequests /\ requests' = requests + 1 /\ UNCHANGED faulty

(* An exception the model does not explain, or a restart *)
Fault == Faults /\ faulty' = TRUE
-----------------------------------------------------------------------------
(* Requests *)

(***************************************************************************)
(* create_channel up to add_channel's commit.  A request that has added a  *)
(* background task runs it only after its response has been sent.          *)
(***************************************************************************)
Create(w, u) ==
    /\ pc[w] = "idle"
    /\ rows[u] = None
    /\ inserted[u] = None
    /\ \E i \in FreshIds : rows' = [rows EXCEPT ![u] = [id |-> i, status |-> "pending"]]
    /\ user' = [user EXCEPT ![w] = u]
    /\ job' = [job EXCEPT ![w] = TRUE]
    /\ Goto(w, "responding")
    /\ Request
    /\ UNCHANGED <<inserted, progress, view, loaded, seen, full, due>>

(* mark_pending: the lookup; the button is in the row. *)
Refresh(w, u) ==
    /\ pc[w] = "idle"
    /\ rows[u] # None
    /\ view[u] # "absent"
    /\ loaded' = [loaded EXCEPT ![w] = rows[u]]
    /\ user' = [user EXCEPT ![w] = u]
    /\ Goto(w, "marking")
    /\ Request
    /\ UNCHANGED <<store, view, seen, job, full, due>>

(* The row that a session loaded or inserted is there to be updated. *)
Writable(p) ==
    \/ inserted[user[p]] = p
    \/ rows[user[p]] # None /\ rows[user[p]].id = loaded[p].id

(***************************************************************************)
(* mark_pending: the commit.  A channel loaded as pending gets no UPDATE   *)
(* of its status (and none at all without an error to clear).              *)
(***************************************************************************)
MarkCommits(w) ==
    /\ pc[w] = "marking"
    /\ \/ /\ Writable(w)
          /\ rows' = IF loaded[w].status = "pending" THEN rows
                     ELSE [rows EXCEPT ![user[w]].status = "pending"]
       \/ /\ ~Writable(w)
          /\ loaded[w].status = "pending"
          /\ UNCHANGED rows
    /\ Goto(w, "responding")
    /\ loaded' = [loaded EXCEPT ![w] = None]
    /\ job' = [job EXCEPT ![w] = TRUE]
    /\ UNCHANGED <<inserted, progress, view, user, seen, full, due, bounds>>

(* StaleDataError *)
MarkRaises(w) ==
    /\ pc[w] = "marking"
    /\ ~Writable(w)
    /\ Finish(w, "idle")
    /\ UNCHANGED <<store, view, due, bounds>>

(* delete_channel; its empty response removes the row from the list. *)
Delete(u) ==
    /\ rows[u] # None
    /\ view[u] # "absent"
    /\ rows' = [rows EXCEPT ![u] = None]
    /\ view' = [view EXCEPT ![u] = "absent"]
    /\ UNCHANGED <<inserted, progress, pc, locals, due, bounds>>

(* get_overview of a request that leaves a job; if the channel is gone the    *)
(* response is a 404 without the task.                                        *)
Overview(w) ==
    /\ pc[w] = "responding"
    /\ rows[user[w]] # None
    /\ seen' = [seen EXCEPT ![w] = rows[user[w]].status]
    /\ Goto(w, "rendering")
    /\ UNCHANGED <<store, view, user, loaded, job, full, due, bounds>>

OverviewGone(w) ==
    /\ pc[w] = "responding"
    /\ rows[user[w]] = None
    /\ Finish(w, "idle")
    /\ UNCHANGED <<store, view, due, bounds>>

(* channel_status, or the list page, reading the channel *)
Read(w, u) ==
    /\ pc[w] = "idle"
    /\ rows[u] # None
    /\ seen' = [seen EXCEPT ![w] = rows[u].status]
    /\ user' = [user EXCEPT ![w] = u]
    /\ Goto(w, "rendering")
    /\ UNCHANGED <<store, view, loaded, job, full, due, bounds>>

Poll(w, u) == view[u] = "polling" /\ Read(w, u)

OpenPage(w, u) == view[u] = "absent" /\ Read(w, u)

(* The row polled a channel that no longer exists: an empty body removes it. *)
PollGone(w, u) ==
    /\ pc[w] = "idle"
    /\ view[u] = "polling"
    /\ rows[u] = None
    /\ view' = [view EXCEPT ![u] = "absent"]
    /\ UNCHANGED <<store, pc, locals, due, bounds>>

(* channel_row.html polls if the channel was pending or has progress now. *)
RowView(status, u) ==
    IF status = "pending" \/ u \in progress THEN "polling" ELSE "static"

(* _render_row, after the reads; then the background task, if there is one *)
Render(w) ==
    /\ pc[w] = "rendering"
    /\ view' = [view EXCEPT ![user[w]] = RowView(seen[w], user[w])]
    /\ \/ /\ job[w]
          /\ Goto(w, "queued")
          /\ UNCHANGED locals
       \/ ~job[w] /\ Finish(w, "idle")
    /\ UNCHANGED <<store, due, bounds>>
-----------------------------------------------------------------------------
(* Ingests *)

(* get_or_create_channel: the row, or an INSERT that is not yet committed. *)
(* Its SELECT and INSERT are one step here, and a second INSERT waits for  *)
(* the first to be committed; Ingest has them as steps of their own, with  *)
(* the IntegrityError of the one that comes second (channels.py:37-45).    *)
Load(p, u, step) ==
    /\ \/ /\ rows[u] # None
          /\ loaded' = [loaded EXCEPT ![p] = rows[u]]
          /\ UNCHANGED inserted
       \/ /\ rows[u] = None
          /\ inserted[u] = None
          /\ \E i \in FreshIds : loaded' = [loaded EXCEPT ![p] = [id |-> i, status |-> "pending"]]
          /\ inserted' = [inserted EXCEPT ![u] = p]
    /\ user' = [user EXCEPT ![p] = u]
    /\ Goto(p, step)

(* Mutant: a failed fetch is committed without a status. *)
SavedUnlessFailed(p, status) ==
    /\ Writable(p)
    /\ rows' = [rows EXCEPT ![user[p]] =
                  [id |-> loaded[p].id,
                   status |-> IF status \in FailedStatuses
                              THEN loaded[p].status ELSE status]]

(* The UPDATE sets the status if it differs from the loaded one. *)
Saved(p, status) ==
    /\ Writable(p)
    /\ rows' = [rows EXCEPT ![user[p]] =
                  [id |-> loaded[p].id,
                   status |-> IF status = loaded[p].status /\ inserted[user[p]] # p
                              THEN rows[user[p]].status ELSE status]]

(* Mutant: the session stays open. *)
KeptOpen(p) == inserted' = inserted

(* The transaction of p is over. *)
Released(p) == inserted' = [u \in Usernames |-> IF inserted[u] = p THEN None ELSE inserted[u]]

(* Mutant: every failure gets a status the table does not know. *)
OutcomesMisspelt == {"active", "failed"}

Outcomes == {"active"} \cup FailedStatuses
-----------------------------------------------------------------------------
(* run_first_ingest and _run_deep_ingest *)

BeginFast(w) ==
    /\ pc[w] = "queued"
    /\ Load(w, user[w], "fast")
    /\ UNCHANGED <<rows, progress, view, seen, job, full, due, bounds>>

FastSucceeds(w) ==
    /\ pc[w] = "fast"
    /\ Saved(w, "active")
    /\ Released(w)
    /\ \E cap \in BOOLEAN : full' = [full EXCEPT ![w] = cap]
    /\ Goto(w, "gap")
    /\ loaded' = [loaded EXCEPT ![w] = None]
    /\ UNCHANGED <<progress, view, user, seen, job, due, bounds>>

FastFails(w) ==
    /\ pc[w] = "fast"
    /\ \E status \in FailedStatuses : Saved(w, status)
    /\ Released(w)
    /\ Finish(w, "idle")
    /\ UNCHANGED <<progress, view, due, bounds>>

(* The session of the fast pass is closed; then needs_deep_ingest. *)
MarkProgress(w) ==
    /\ pc[w] = "gap"
    /\ progress' = IF full[w] THEN progress \cup {user[w]} ELSE progress
    /\ Goto(w, "classifying")
    /\ UNCHANGED <<rows, inserted, view, locals, due, bounds>>

(* _classify_best_effort and _explain_anomalies_best_effort swallow errors. *)
Classified(w) ==
    /\ pc[w] = "classifying"
    /\ \/ full[w] /\ Goto(w, "chained") /\ UNCHANGED locals
       \/ ~full[w] /\ Finish(w, "idle")
    /\ UNCHANGED <<store, view, due, bounds>>

BeginDeep(w) ==
    /\ pc[w] = "chained"
    /\ Load(w, user[w], "deep")
    /\ UNCHANGED <<rows, progress, view, seen, job, full, due, bounds>>

(* on_progress, once per page *)
DeepProgress(w) ==
    /\ pc[w] = "deep"
    /\ progress' = progress \cup {user[w]}
    /\ UNCHANGED <<rows, inserted, view, pc, locals, due, bounds>>

DeepCommits(w) ==
    /\ pc[w] = "deep"
    /\ \E status \in Outcomes : Saved(w, status)
    /\ Released(w)
    /\ Goto(w, "popping")
    /\ UNCHANGED <<progress, view, locals, due, bounds>>

(* Mutant: the entry is removed only by a pass that succeeded. *)
PopUnlessFailed(w) ==
    /\ pc[w] = "popping"
    /\ progress' = IF rows[user[w]] # None /\ rows[user[w]].status = "active"
                   THEN progress \ {user[w]} ELSE progress
    /\ Finish(w, "idle")
    /\ UNCHANGED <<rows, inserted, view, due, bounds>>

(* finally: pop.  The classification that follows changes nothing here. *)
Pop(w) ==
    /\ pc[w] = "popping"
    /\ progress' = progress \ {user[w]}
    /\ Finish(w, "idle")
    /\ UNCHANGED <<rows, inserted, view, due, bounds>>

(* The ingest raises: StaleDataError if the row is gone, or any other error. *)
JobRaises(w) ==
    /\ pc[w] \in {"fast", "deep"}
    /\ \/ Fault
       \/ ~Writable(w) /\ UNCHANGED faulty
    /\ progress' = IF pc[w] = "deep" THEN progress \ {user[w]} ELSE progress
    /\ Released(w)
    /\ Finish(w, "idle")
    /\ UNCHANGED <<rows, view, due, requests>>
-----------------------------------------------------------------------------
(* refresh_due_channels *)

ListDue(c) ==
    /\ pc[c] = "idle"
    /\ due' = [due EXCEPT ![c] = {u \in Usernames : /\ rows[u] # None
                                                    /\ rows[u].status \in Refreshable}]
    /\ Goto(c, "batch")
    /\ UNCHANGED <<store, view, locals, bounds>>

CronLoad(c) ==
    /\ pc[c] = "batch"
    /\ \E u \in due[c] :
          /\ Load(c, u, "refreshing")
          /\ due' = [due EXCEPT ![c] = @ \ {u}]
    /\ UNCHANGED <<rows, progress, view, seen, job, full, bounds>>

CronCommits(c) ==
    /\ pc[c] = "refreshing"
    /\ \E status \in Outcomes : Saved(c, status)
    /\ Released(c)
    /\ Finish(c, "batch")
    /\ UNCHANGED <<progress, view, due, bounds>>

CronRaises(c) ==
    /\ pc[c] = "refreshing"
    /\ \/ Fault
       \/ ~Writable(c) /\ UNCHANGED faulty
    /\ Released(c)
    /\ Finish(c, "batch")
    /\ UNCHANGED <<rows, progress, view, due, requests>>

(* The list is done, or the time budget is exceeded. *)
CronEnds(c) ==
    /\ pc[c] = "batch"
    /\ due' = [due EXCEPT ![c] = {}]
    /\ Goto(c, "idle")
    /\ UNCHANGED <<store, view, locals, bounds>>
-----------------------------------------------------------------------------
(* A request fails after its commit, before its response: no task runs. *)
RequestRaises(w) ==
    /\ Fault
    /\ pc[w] \in {"marking", "responding", "rendering"}
    /\ Finish(w, "idle")
    /\ UNCHANGED <<store, view, due, requests>>

(* The process restarts; the database and the browser keep what they have. *)
Crash ==
    /\ Fault
    /\ \E p \in Procs : pc[p] # "idle"
    /\ inserted' = [u \in Usernames |-> None]
    /\ progress' = {}
    /\ pc' = [p \in Procs |-> "idle"]
    /\ user' = [p \in Procs |-> None]
    /\ loaded' = [p \in Procs |-> None]
    /\ seen' = [p \in Procs |-> None]
    /\ job' = [p \in Procs |-> FALSE]
    /\ full' = [p \in Procs |-> FALSE]
    /\ due' = [c \in Crons |-> {}]
    /\ UNCHANGED <<rows, view, requests>>

WorkerStep(w) ==
    \/ MarkCommits(w) \/ MarkRaises(w) \/ Overview(w) \/ OverviewGone(w) \/ Render(w)
    \/ BeginFast(w) \/ FastSucceeds(w) \/ FastFails(w) \/ MarkProgress(w) \/ Classified(w)
    \/ BeginDeep(w) \/ DeepCommits(w) \/ Pop(w) \/ JobRaises(w)

BrowserStep(w, u) == Poll(w, u) \/ PollGone(w, u)

CronStep(c) == CronLoad(c) \/ CronCommits(c) \/ CronRaises(c) \/ CronEnds(c)

Next ==
    \/ \E w \in Workers :
          \/ WorkerStep(w) \/ DeepProgress(w) \/ RequestRaises(w)
          \/ \E u \in Usernames : \/ Create(w, u) \/ Refresh(w, u)
                                  \/ BrowserStep(w, u) \/ OpenPage(w, u)
    \/ \E u \in Usernames : Delete(u)
    \/ \E c \in Crons : ListDue(c) \/ CronStep(c)
    \/ Crash

Spec == Init /\ [][Next]_vars

(* Coroutines are resumed, fetches time out, the browser polls every 2s. *)
FairSpec ==
    /\ Spec
    /\ \A w \in Workers : /\ WF_vars(WorkerStep(w))
                          /\ \A u \in Usernames : SF_vars(BrowserStep(w, u))
    /\ \A c \in Crons : WF_vars(CronStep(c))
-----------------------------------------------------------------------------
(***************************************************************************)
(* Every variable keeps its type.                                          *)
(***************************************************************************)
TypeOK ==
    /\ rows \in [Usernames -> Row \cup {None}]
    /\ inserted \in [Usernames -> Procs \cup {None}]
    /\ progress \subseteq Usernames
    /\ view \in [Usernames -> {"absent", "polling", "static"}]
    /\ pc \in [Procs -> WorkerPcs \cup CronPcs]
    /\ \A w \in Workers : pc[w] \in WorkerPcs
    /\ \A c \in Crons : pc[c] \in CronPcs
    /\ user \in [Procs -> Usernames \cup {None}]
    /\ loaded \in [Procs -> Row \cup {None}]
    /\ seen \in [Procs -> Statuses \cup {None}]
    /\ job \in [Procs -> BOOLEAN]
    /\ full \in [Procs -> BOOLEAN]
    /\ due \in [Crons -> SUBSET Usernames]
    /\ requests \in 0 .. MaxRequests
    /\ faulty \in BOOLEAN

Works(w, u, steps) == user[w] = u /\ pc[w] \in steps

(***************************************************************************)
(* README.md:158-159 says of pending channels that "the first-ingest       *)
(* background task owns" them: whoever set a channel pending still has its *)
(* fast pass ahead, whatever other jobs and batches wrote since.  Holds    *)
(* until something raises or the process restarts.                         *)
(***************************************************************************)
PendingIsOwned ==
    \A u \in Usernames :
        rows[u] # None /\ rows[u].status = "pending" =>
            \E w \in Workers : job[w] /\ Works(w, u, {"responding", "rendering", "queued", "fast"})

PendingOwnedUntilFault == faulty \/ PendingIsOwned

(***************************************************************************)
(* An entry of _backfill_progress belongs to a job that will remove it:    *)
(* no raise, restart or overlapping job leaves a row polling for good.     *)
(***************************************************************************)
ProgressHasOwner ==
    \A u \in progress :
        \E w \in Workers : full[w] /\ Works(w, u, {"classifying", "chained", "deep", "popping"})

(***************************************************************************)
(* Nobody else can add a channel that an open transaction inserts, and     *)
(* only an ingest under way has one open: no channel is blocked for good.  *)
(***************************************************************************)
InsertIsOpen ==
    \A u \in Usernames : inserted[u] # None =>
        rows[u] = None /\ user[inserted[u]] = u /\ pc[inserted[u]] \in IngestPcs

(***************************************************************************)
(* A channel does not stay pending.                                        *)
(***************************************************************************)
IsPending(u) == rows[u] # None /\ rows[u].status = "pending"

PendingResolves == \A u \in Usernames : IsPending(u) ~> ~IsPending(u)

(***************************************************************************)
(* The row stops polling once there is nothing to wait for.                *)
(***************************************************************************)
PollingSettles == \A u \in Usernames : view[u] = "polling" ~> view[u] # "polling"

(***************************************************************************)
(* background.py:62-69: the row's polling condition "stays true across the *)
(* gap", so that the row does not "stop polling for good, missing the deep *)
(* pass entirely".                                                         *)
(***************************************************************************)
NoMissedDeepPass ==
    \A u \in Usernames :
        view[u] = "static" =>
            ~\E w \in Workers : full[w] /\ Works(w, u, {"gap", "classifying", "chained", "deep"})
=============================================================================
