--------------------------- MODULE ConnectionPool ---------------------------
(***************************************************************************)
(* The connections of db.engine (pool_size, max_overflow=0) as the         *)
(* requests and their background jobs share them.  A session takes a       *)
(* connection with its first statement and gives it back when it commits   *)
(* or is closed.  The session of a request is closed after the response's  *)
(* background task, so a request that adds or retries a channel holds a    *)
(* connection while its first ingest waits for others, one by one.         *)
(***************************************************************************)
EXTENDS Naturals

CONSTANTS
    Conns,
    Adds,           \* requests that add or retry a channel
    Reads,          \* requests and batches that use one connection at a time
    None

ASSUME NoneIsNoConnection == None \notin Conns
ASSUME AddsAreNoReads == Adds \cap Reads = {}

Procs == Adds \cup Reads

VARIABLES
    stage,          \* what the current session of a request or of its job is for
    waiting,        \* whether it waits for its connection
    request,        \* the connection of the request's own session
    job             \* the connection of the background job's current session

vars == <<stage, waiting, request, job>>

Requests == {"read", "save", "overview"}
Jobs == {"fast", "classify", "explain", "deep", "classify_deep", "explain_deep"}

Init ==
    /\ stage = [p \in Procs |-> "idle"]
    /\ waiting = [p \in Procs |-> FALSE]
    /\ request = [p \in Procs |-> None]
    /\ job = [p \in Procs |-> None]

Free == {c \in Conns : \A p \in Procs : c \notin {request[p], job[p]}}

(* p's next session, or its next transaction, needs a connection. *)
Want(p, s) ==
    /\ stage' = [stage EXCEPT ![p] = s]
    /\ waiting' = [waiting EXCEPT ![p] = TRUE]

(* The request is over, its background job with it. *)
Closed(p) ==
    /\ stage' = [stage EXCEPT ![p] = "idle"]
    /\ waiting' = [waiting EXCEPT ![p] = FALSE]
    /\ request' = [request EXCEPT ![p] = None]
    /\ job' = [job EXCEPT ![p] = None]

Request(p) ==
    /\ stage[p] = "idle"
    /\ Want(p, IF p \in Adds THEN "save" ELSE "read")
    /\ UNCHANGED <<request, job>>

(* The pool hands out a free connection, in no particular order. *)
Take(p) ==
    /\ waiting[p]
    /\ waiting' = [waiting EXCEPT ![p] = FALSE]
    /\ \E c \in Free :
        IF stage[p] \in Jobs
        THEN job' = [job EXCEPT ![p] = c] /\ UNCHANGED request
        ELSE request' = [request EXCEPT ![p] = c] /\ UNCHANGED job
    /\ UNCHANGED stage
-----------------------------------------------------------------------------
(* get_session closes after the response, whether or not the body raised;  *)
(* add_channel and mark_pending also give up without a commit.             *)
EndRequest(p) ==
    /\ stage[p] \in Requests /\ ~waiting[p]
    /\ Closed(p)

(* add_channel or mark_pending commits, and get_overview reads again. *)
Save(p) ==
    /\ stage[p] = "save" /\ ~waiting[p]
    /\ Want(p, "overview")
    /\ request' = [request EXCEPT ![p] = None]
    /\ UNCHANGED job

(* The response is sent and the background task begins. *)
Respond(p) ==
    /\ stage[p] = "overview" /\ ~waiting[p]
    /\ Want(p, "fast")
    /\ UNCHANGED <<request, job>>

(* Without ai_auto_classify_enabled an ingest is followed by none but the deep one. *)
NextJobs == [fast |-> {"classify", "deep"}, classify |-> {"explain"}, explain |-> {"deep"},
             deep |-> {"classify_deep"}, classify_deep |-> {"explain_deep"}, explain_deep |-> {}]

(* Mutant: the sessions of a job are nested. *)
ContinueNested(p) ==
    /\ stage[p] \in Jobs /\ ~waiting[p]
    /\ \E s \in NextJobs[stage[p]] : Want(p, s)
    /\ UNCHANGED <<request, job>>

(* One session of the job is closed, the next is opened. *)
Continue(p) ==
    /\ stage[p] \in Jobs /\ ~waiting[p]
    /\ \E s \in NextJobs[stage[p]] : Want(p, s)
    /\ job' = [job EXCEPT ![p] = None]
    /\ UNCHANGED request

(* Mutant: the session of a job that has ended stays open. *)
EndJobUnclosed(p) ==
    /\ stage[p] \in {"fast", "explain", "deep", "explain_deep"} /\ ~waiting[p]
    /\ stage' = [stage EXCEPT ![p] = "idle"]
    /\ request' = [request EXCEPT ![p] = None]
    /\ UNCHANGED <<waiting, job>>

(* No deep pass is needed, an ingest has failed, or there is no next one. *)
EndJob(p) ==
    /\ stage[p] \in {"fast", "explain", "deep", "explain_deep"} /\ ~waiting[p]
    /\ Closed(p)
-----------------------------------------------------------------------------
(* Mutant: only a request's own wait has a time limit. *)
TimeOutRequest(p) ==
    /\ waiting[p] /\ stage[p] \in Requests
    /\ Free = {}
    /\ Closed(p)

(* The pool's timeout: the request fails; an ingest is given up and the    *)
(* job ends; classification and explanation are done without, and the job  *)
(* goes on unless no deep pass is needed or there is no next session.      *)
TimeOut(p) ==
    /\ waiting[p]
    /\ Free = {}
    /\ \/ /\ stage[p] \in {"classify", "explain", "classify_deep"}
          /\ \E s \in NextJobs[stage[p]] : Want(p, s)
          /\ UNCHANGED <<request, job>>
       \/ stage[p] \notin {"classify", "classify_deep"} /\ Closed(p)
-----------------------------------------------------------------------------
Proceed(p) ==
    Take(p) \/ EndRequest(p) \/ Save(p) \/ Respond(p) \/ Continue(p) \/ EndJob(p) \/ TimeOut(p)

Next == \E p \in Procs : Request(p) \/ Proceed(p)

Spec == Init /\ [][Next]_vars

(* A waiting session gets a connection or its timeout, and the work with a *)
(* connection ends: fetches and LLM calls have timeouts of their own.      *)
FairSpec == Spec /\ \A p \in Procs : WF_vars(Proceed(p))
-----------------------------------------------------------------------------
TypeOK ==
    /\ stage \in [Procs -> {"idle"} \cup Requests \cup Jobs]
    /\ waiting \in [Procs -> BOOLEAN]
    /\ request \in [Procs -> Conns \cup {None}]
    /\ job \in [Procs -> Conns \cup {None}]
    /\ \A p \in Reads : stage[p] \in {"idle", "read"}
    /\ \A p \in Procs : waiting[p] => stage[p] # "idle"

HeldWhileUsed ==
    \A p \in Procs :
        /\ request[p] # None <=> stage[p] \in Jobs \/ (stage[p] \in Requests /\ ~waiting[p])
        /\ job[p] # None <=> stage[p] \in Jobs /\ ~waiting[p]

(***************************************************************************)
(* Every variable keeps its type, and a session holds a connection exactly *)
(* while it is used: on every path through a request and its job none is   *)
(* leaked, and a job never holds two of its own.                           *)
(***************************************************************************)
PoolInv == TypeOK /\ HeldWhileUsed

(***************************************************************************)
(* If every connection is held by somebody who waits for another, each is  *)
(* held by a request of its own that adds or retries a channel: fewer such *)
(* requests than there are connections never bring the program to a stop,  *)
(* and no number of pages, polls, digests or batches does.                 *)
(***************************************************************************)
Gridlocked == \A c \in Conns : \E p \in Procs : waiting[p] /\ c \in {request[p], job[p]}

GridlockIsByJobs ==
    Gridlocked => \A c \in Conns : \E p \in Adds : stage[p] \in Jobs /\ request[p] = c /\ job[p] = None

(***************************************************************************)
(* Every request ends with its job, though all connections may be held by  *)
(* requests whose jobs wait for one: the pool's timeout resolves it.       *)
(***************************************************************************)
EveryRequestEnds == \A p \in Procs : stage[p] # "idle" ~> stage[p] = "idle"
=============================================================================
