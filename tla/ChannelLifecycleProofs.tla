----------------------- MODULE ChannelLifecycleProofs -----------------------
(***************************************************************************)
(* Proofs about ChannelLifecycle, for any sets of channels, requests and   *)
(* cron calls, with faults or without.                                     *)
(***************************************************************************)
EXTENDS ChannelLifecycle, TLAPS

(***************************************************************************)
(* What the arguments of the handlers guarantee: a request, a job and an   *)
(* ingest know their channel, whatever will write has loaded a row, and    *)
(* only a fast pass that hit its cap is followed by a deep one.            *)
(***************************************************************************)
ChannelKnown ==
    /\ \A w \in Workers : pc[w] # "idle" => user[w] \in Usernames
    /\ \A c \in Crons : pc[c] = "refreshing" => user[c] \in Usernames

RowLoaded == \A p \in Procs : pc[p] \in {"marking"} \cup IngestPcs => loaded[p] \in Row

DeepAfterFull == \A w \in Workers : pc[w] \in {"chained", "deep", "popping"} => full[w]

(***************************************************************************)
(* The owner of a pending channel is not any fast pass on it, but one that *)
(* loaded the row as it is now: its UPDATE will set the status, while one  *)
(* that loaded "active" leaves a pending row pending.                      *)
(***************************************************************************)
Owns(w, u) ==
    /\ job[w] /\ user[w] = u
    /\ \/ pc[w] \in {"responding", "rendering", "queued"}
       \/ pc[w] = "fast" /\ loaded[w] = rows[u]

PendingHasWriter ==
    faulty \/ \A u \in Usernames : IsPending(u) => \E w \in Workers : Owns(w, u)

Memory == ChannelKnown /\ RowLoaded /\ DeepAfterFull

IInv == TypeOK /\ Memory /\ InsertIsOpen /\ ProgressHasOwner /\ PendingHasWriter
-----------------------------------------------------------------------------
(***************************************************************************)
(* Moving a process keeps the program counters typed.                      *)
(***************************************************************************)
LEMMA StepTypes ==
    ASSUME TypeOK, NEW p \in Procs, NEW step, pc' = [pc EXCEPT ![p] = step],
           p \in Workers => step \in WorkerPcs, p \in Crons => step \in CronPcs
    PROVE  /\ pc' \in [Procs -> WorkerPcs \cup CronPcs]
           /\ \A w \in Workers : pc'[w] \in WorkerPcs
           /\ \A c \in Crons : pc'[c] \in CronPcs
  BY DEF TypeOK, Procs

(***************************************************************************)
(* A request or job that ends leaves typed memory behind.                  *)
(***************************************************************************)
LEMMA FinishTypes ==
    ASSUME TypeOK, NEW p \in Procs, NEW step, Finish(p, step)
    PROVE  /\ user' \in [Procs -> Usernames \cup {None}]
           /\ loaded' \in [Procs -> Row \cup {None}]
           /\ seen' \in [Procs -> Statuses \cup {None}]
           /\ job' \in [Procs -> BOOLEAN]
           /\ full' \in [Procs -> BOOLEAN]
  BY DEF TypeOK, Finish

(***************************************************************************)
(* get_or_create_channel loads a row and knows its channel.                *)
(***************************************************************************)
LEMMA LoadTypes ==
    ASSUME TypeOK, NEW p \in Procs, NEW u \in Usernames, NEW step, Load(p, u, step)
    PROVE  /\ loaded' \in [Procs -> Row \cup {None}]
           /\ loaded'[p] \in Row
           /\ inserted' \in [Usernames -> Procs \cup {None}]
           /\ user' \in [Procs -> Usernames \cup {None}]
           /\ \A q \in Procs : q # p => loaded'[q] = loaded[q] /\ user'[q] = user[q]
           /\ user'[p] = u
  <1>1. CASE rows[u] # None
    BY <1>1 DEF TypeOK, Load
  <1>2. CASE rows[u] = None
    <2>1. PICK i \in FreshIds : loaded' = [loaded EXCEPT ![p] = [id |-> i, status |-> "pending"]]
      BY <1>2 DEF Load
    <2>2. [id |-> i, status |-> "pending"] \in Row
      BY DEF FreshIds, Row, Statuses
    <2> QED
      BY <2>1, <2>2 DEF TypeOK, Load
  <1> QED
    BY <1>1, <1>2

(***************************************************************************)
(* What a commit writes is a row, and no other transaction of that channel *)
(* is open: an INSERT excludes a row, and the writer's own is over.        *)
(***************************************************************************)
LEMMA SavedTypes ==
    ASSUME TypeOK, InsertIsOpen, NEW p \in Procs, user[p] \in Usernames, loaded[p] \in Row,
           NEW status \in Statuses, Saved(p, status), Released(p)
    PROVE  /\ rows' \in [Usernames -> Row \cup {None}]
           /\ inserted' \in [Usernames -> Procs \cup {None}]
           /\ inserted'[user[p]] = None
           /\ \A u \in Usernames : u # user[p] => rows'[u] = rows[u]
  <1> DEFINE written == IF status = loaded[p].status /\ inserted[user[p]] # p
                        THEN rows[user[p]].status ELSE status
  <1>1. written \in Statuses
    BY DEF TypeOK, Writable, Saved, Row
  <1>2. rows' = [rows EXCEPT ![user[p]] = [id |-> loaded[p].id, status |-> written]]
    BY DEF Saved
  <1>3. [id |-> loaded[p].id, status |-> written] \in Row
    BY <1>1 DEF Row
  <1>4. rows' \in [Usernames -> Row \cup {None}]
    BY <1>2, <1>3 DEF TypeOK
  <1>5. inserted[user[p]] \in {p, None}
    BY DEF InsertIsOpen, Saved, Writable
  <1> QED
    BY <1>2, <1>4, <1>5 DEF TypeOK, Released
-----------------------------------------------------------------------------
(***************************************************************************)
(* add_channel commits a pending row; the request that did will leave the  *)
(* task.                                                                   *)
(***************************************************************************)
LEMMA CreateKeeps ==
    ASSUME IInv, NEW w \in Workers, NEW u \in Usernames, Create(w, u)
    PROVE  IInv'
  <1> USE NoneIsNoProc, WorkersAreNoCrons DEF IInv, Memory, Create, Procs, Goto, Request
  <1>1. PICK i \in RowIds : rows' = [rows EXCEPT ![u] = [id |-> i, status |-> "pending"]]
    BY DEF FreshIds
  <1>2. [id |-> i, status |-> "pending"] \in Row
    BY DEF Row, Statuses
  <1>3. TypeOK'
    BY <1>1, <1>2, MaxRequestsIsNat DEF TypeOK, WorkerPcs
  <1>4. Memory'
    BY DEF TypeOK, ChannelKnown, RowLoaded, DeepAfterFull, IngestPcs
  <1>5. InsertIsOpen'
    BY DEF InsertIsOpen, IngestPcs
  <1>6. ProgressHasOwner'
    BY DEF ProgressHasOwner, Works
  <1>7. PendingHasWriter'
    BY DEF TypeOK, PendingHasWriter, Owns, IsPending
  <1> QED
    BY <1>3, <1>4, <1>5, <1>6, <1>7

(***************************************************************************)
(* mark_pending has loaded the row, as it is now.                          *)
(***************************************************************************)
LEMMA RefreshKeeps ==
    ASSUME IInv, NEW w \in Workers, NEW u \in Usernames, Refresh(w, u)
    PROVE  IInv'
  <1> USE NoneIsNoProc, WorkersAreNoCrons DEF IInv, Memory, Refresh, Procs, Goto, Request, store
  <1>1. TypeOK'
    BY MaxRequestsIsNat DEF TypeOK, WorkerPcs
  <1>2. Memory'
    BY DEF TypeOK, ChannelKnown, RowLoaded, DeepAfterFull
  <1>3. InsertIsOpen'
    BY DEF InsertIsOpen, IngestPcs
  <1>4. ProgressHasOwner'
    BY DEF ProgressHasOwner, Works
  <1>5. PendingHasWriter'
    BY DEF PendingHasWriter, Owns, IsPending
  <1> QED
    BY <1>1, <1>2, <1>3, <1>4, <1>5

(***************************************************************************)
(* mark_pending commits: the row is pending now if it was written or was   *)
(* pending when loaded, and its request will leave the task.               *)
(***************************************************************************)
LEMMA MarkCommitsKeeps ==
    ASSUME IInv, NEW w \in Workers, MarkCommits(w)
    PROVE  IInv'
  <1> USE NoneIsNoProc, WorkersAreNoCrons DEF IInv, Memory, MarkCommits, Procs, Goto, bounds
  <1>1. rows' \in [Usernames -> Row \cup {None}]
    <2>1. CASE Writable(w) /\ loaded[w].status # "pending"
      <3>1. rows[user[w]] \in Row
        BY <2>1 DEF TypeOK, ChannelKnown, InsertIsOpen, IngestPcs, Writable
      <3>2. [rows[user[w]] EXCEPT !.status = "pending"] \in Row
        BY <3>1 DEF Row, Statuses
      <3> QED
        BY <3>2 DEF TypeOK
    <2>2. CASE ~(Writable(w) /\ loaded[w].status # "pending")
      BY <2>2 DEF TypeOK
    <2> QED
      BY <2>1, <2>2
  <1>2. TypeOK'
    BY <1>1 DEF TypeOK, WorkerPcs
  <1>3. Memory'
    BY DEF TypeOK, ChannelKnown, RowLoaded, DeepAfterFull, IngestPcs
  <1>4. InsertIsOpen'
    BY DEF TypeOK, InsertIsOpen, IngestPcs, Writable
  <1>5. ProgressHasOwner'
    BY DEF ProgressHasOwner, Works
  <1>6. PendingHasWriter'
    BY DEF TypeOK, PendingHasWriter, Owns, IsPending
  <1> QED
    BY <1>2, <1>3, <1>4, <1>5, <1>6

(***************************************************************************)
(* A mark_pending whose row is gone ends without having written.           *)
(***************************************************************************)
LEMMA MarkRaisesKeeps ==
    ASSUME IInv, NEW w \in Workers, MarkRaises(w)
    PROVE  IInv'
   <1> USE NoneIsNoProc, WorkersAreNoCrons DEF IInv, Memory, MarkRaises, Procs, Finish, store,
     bounds
  <1>1. TypeOK'
    BY DEF TypeOK, WorkerPcs
  <1>2. Memory'
    BY DEF TypeOK, ChannelKnown, RowLoaded, DeepAfterFull, IngestPcs
  <1>3. InsertIsOpen'
    BY DEF InsertIsOpen, Writable
  <1>4. ProgressHasOwner'
    BY DEF ProgressHasOwner, Works
  <1>5. PendingHasWriter'
    BY DEF PendingHasWriter, Owns, IsPending
  <1> QED
    BY <1>1, <1>2, <1>3, <1>4, <1>5

(***************************************************************************)
(* A deleted channel is not pending; whatever loaded it can no longer write. *)
(***************************************************************************)
LEMMA DeleteKeeps ==
    ASSUME IInv, NEW u \in Usernames, Delete(u)
    PROVE  IInv'
  <1> USE NoneIsNoProc, WorkersAreNoCrons DEF IInv, Memory, Delete, Procs, bounds, locals
  <1>1. TypeOK'
    BY DEF TypeOK
  <1>2. Memory'
    BY DEF ChannelKnown, RowLoaded, DeepAfterFull
  <1>3. InsertIsOpen'
    BY DEF InsertIsOpen
  <1>4. ProgressHasOwner'
    BY DEF ProgressHasOwner, Works
  <1>5. PendingHasWriter'
    BY DEF PendingHasWriter, Owns, IsPending
  <1> QED
    BY <1>1, <1>2, <1>3, <1>4, <1>5

(***************************************************************************)
(* get_overview reads; the request still has its task to leave.            *)
(***************************************************************************)
LEMMA OverviewKeeps ==
    ASSUME IInv, NEW w \in Workers, Overview(w)
    PROVE  IInv'
  <1> USE NoneIsNoProc, WorkersAreNoCrons DEF IInv, Memory, Overview, Procs, Goto, store, bounds
  <1>1. TypeOK'
    BY DEF TypeOK, Row, WorkerPcs, ChannelKnown
  <1>2. Memory'
    BY DEF ChannelKnown, RowLoaded, DeepAfterFull, IngestPcs
  <1>3. InsertIsOpen'
    BY DEF InsertIsOpen
  <1>4. ProgressHasOwner'
    BY DEF ProgressHasOwner, Works
  <1>5. PendingHasWriter'
    BY DEF PendingHasWriter, Owns, IsPending
  <1> QED
    BY <1>1, <1>2, <1>3, <1>4, <1>5

(***************************************************************************)
(* A request that finds its channel gone leaves no task, and no pending row. *)
(***************************************************************************)
LEMMA OverviewGoneKeeps ==
    ASSUME IInv, NEW w \in Workers, OverviewGone(w)
    PROVE  IInv'
   <1> USE NoneIsNoProc, WorkersAreNoCrons DEF IInv, Memory, OverviewGone, Procs, Finish, store,
     bounds
  <1>1. TypeOK'
    BY DEF TypeOK, WorkerPcs
  <1>2. Memory'
    BY DEF TypeOK, ChannelKnown, RowLoaded, DeepAfterFull, IngestPcs
  <1>3. InsertIsOpen'
    BY DEF InsertIsOpen, IngestPcs
  <1>4. ProgressHasOwner'
    BY DEF ProgressHasOwner, Works
  <1>5. PendingHasWriter'
    BY DEF PendingHasWriter, Owns, IsPending
  <1> QED
    BY <1>1, <1>2, <1>3, <1>4, <1>5

(***************************************************************************)
(* A page or a poll reads; it owns nothing.                                *)
(***************************************************************************)
LEMMA ReadKeeps ==
    ASSUME IInv, NEW w \in Workers, NEW u \in Usernames, Read(w, u)
    PROVE  IInv'
  <1> USE NoneIsNoProc, WorkersAreNoCrons DEF IInv, Memory, Read, Procs, Goto, store, bounds
  <1>1. TypeOK'
    BY DEF TypeOK, Row, WorkerPcs
  <1>2. Memory'
    BY DEF TypeOK, ChannelKnown, RowLoaded, DeepAfterFull, IngestPcs
  <1>3. InsertIsOpen'
    BY DEF InsertIsOpen, IngestPcs
  <1>4. ProgressHasOwner'
    BY DEF ProgressHasOwner, Works
  <1>5. PendingHasWriter'
    BY DEF PendingHasWriter, Owns, IsPending
  <1> QED
    BY <1>1, <1>2, <1>3, <1>4, <1>5

(***************************************************************************)
(* A poll that finds the channel gone changes the browser's row only.      *)
(***************************************************************************)
LEMMA PollGoneKeeps ==
    ASSUME IInv, NEW w \in Workers, NEW u \in Usernames, PollGone(w, u)
    PROVE  IInv'
   <1> USE NoneIsNoProc, WorkersAreNoCrons DEF IInv, Memory, PollGone, Procs, store, bounds,
     locals
  <1>1. TypeOK'
    BY DEF TypeOK
  <1>2. Memory'
    BY DEF ChannelKnown, RowLoaded, DeepAfterFull
  <1>3. InsertIsOpen'
    BY DEF InsertIsOpen
  <1>4. ProgressHasOwner'
    BY DEF ProgressHasOwner, Works
  <1>5. PendingHasWriter'
    BY DEF PendingHasWriter, Owns, IsPending
  <1> QED
    BY <1>1, <1>2, <1>3, <1>4, <1>5

(***************************************************************************)
(* The response is sent, and the task is queued if the request has one.    *)
(***************************************************************************)
LEMMA RenderKeeps ==
    ASSUME IInv, NEW w \in Workers, Render(w)
    PROVE  IInv'
   <1> USE NoneIsNoProc, WorkersAreNoCrons DEF IInv, Memory, Render, Procs, Goto, Finish, store,
     bounds, locals
  <1>1. view' \in [Usernames -> {"absent", "polling", "static"}]
    BY DEF TypeOK, RowView
  <1>2. TypeOK'
    <2>1. CASE job[w]
      <3>1. UNCHANGED locals /\ pc' = [pc EXCEPT ![w] = "queued"]
        BY <2>1
      <3> QED
        BY <1>1, <3>1 DEF TypeOK, WorkerPcs
    <2>2. CASE ~job[w]
      <3>1. Finish(w, "idle")
        BY <2>2
      <3> QED
        BY <1>1, <3>1 DEF TypeOK, WorkerPcs
    <2> QED
      BY <2>1, <2>2
  <1>3. Memory'
    BY DEF TypeOK, ChannelKnown, RowLoaded, DeepAfterFull, IngestPcs
  <1>4. InsertIsOpen'
    BY DEF TypeOK, InsertIsOpen, IngestPcs
  <1>5. ProgressHasOwner'
    BY DEF TypeOK, ProgressHasOwner, Works
  <1>6. PendingHasWriter'
    BY DEF TypeOK, PendingHasWriter, Owns, IsPending
  <1> QED
    BY <1>2, <1>3, <1>4, <1>5, <1>6

(***************************************************************************)
(* The fast pass loads the row as it is now, or inserts one that nobody    *)
(* else sees.                                                              *)
(***************************************************************************)
LEMMA BeginFastKeeps ==
    ASSUME IInv, NEW w \in Workers, BeginFast(w)
    PROVE  IInv'
  <1> USE NoneIsNoProc, WorkersAreNoCrons DEF IInv, Memory, BeginFast, Procs, Goto, bounds
  <1>1. user[w] \in Usernames
    BY DEF ChannelKnown
  <1>2. /\ loaded' \in [Procs -> Row \cup {None}]
        /\ loaded'[w] \in Row
        /\ inserted' \in [Usernames -> Procs \cup {None}]
        /\ user' \in [Procs -> Usernames \cup {None}]
        /\ \A q \in Procs : q # w => loaded'[q] = loaded[q] /\ user'[q] = user[q]
        /\ user'[w] = user[w] /\ pc' = [pc EXCEPT ![w] = "fast"]
    BY <1>1, LoadTypes DEF Load
  <1>3. TypeOK'
    BY <1>2, MaxRequestsIsNat, FaultsIsBool DEF TypeOK, WorkerPcs
  <1>4. Memory'
    BY <1>2 DEF TypeOK, ChannelKnown, RowLoaded, DeepAfterFull, IngestPcs
  <1>5. InsertIsOpen'
    BY DEF TypeOK, InsertIsOpen, IngestPcs, Load
  <1>6. ProgressHasOwner'
    BY DEF ProgressHasOwner, Works, Load
  <1>7. PendingHasWriter'
    BY DEF TypeOK, PendingHasWriter, Owns, IsPending, Load
  <1> QED
    BY <1>3, <1>4, <1>5, <1>6, <1>7

(***************************************************************************)
(* A fast pass that succeeds leaves its channel active, unless that is how *)
(* it had loaded it: then the status stays what it is now.                 *)
(***************************************************************************)
LEMMA FastSucceedsKeeps ==
    ASSUME IInv, NEW w \in Workers, FastSucceeds(w)
    PROVE  IInv'
  <1> USE NoneIsNoProc, WorkersAreNoCrons DEF IInv, Memory, FastSucceeds, Procs, Goto, bounds
  <1>1. TypeOK'
    BY DEF TypeOK, Writable, Saved, Released, Row, Statuses, WorkerPcs, ChannelKnown,
      RowLoaded, IngestPcs
  <1>2. Memory'
    BY DEF TypeOK, ChannelKnown, RowLoaded, DeepAfterFull, IngestPcs
  <1>3. InsertIsOpen'
    BY DEF InsertIsOpen, Saved, Released, Writable
  <1>4. ProgressHasOwner'
    BY DEF ProgressHasOwner, Works
  <1>5. PendingHasWriter'
    BY DEF TypeOK, PendingHasWriter, Owns, IsPending, Saved, Writable, Row, ChannelKnown,
      RowLoaded, InsertIsOpen
  <1> QED
    BY <1>1, <1>2, <1>3, <1>4, <1>5

(***************************************************************************)
(* A fast pass that fails leaves a failed status, or what is there now if it *)
(* had loaded the same.                                                    *)
(***************************************************************************)
LEMMA FastFailsKeeps ==
    ASSUME IInv, NEW w \in Workers, FastFails(w)
    PROVE  IInv'
  <1> USE NoneIsNoProc, WorkersAreNoCrons DEF IInv, Memory, FastFails, Procs, Finish, bounds
  <1>1. TypeOK'
    BY DEF TypeOK, Writable, Saved, Released, Row, Statuses, WorkerPcs, ChannelKnown,
      RowLoaded, IngestPcs
  <1>2. Memory'
    BY DEF TypeOK, ChannelKnown, RowLoaded, DeepAfterFull, IngestPcs
  <1>3. InsertIsOpen'
    BY DEF InsertIsOpen, Saved, Released, Writable
  <1>4. ProgressHasOwner'
    BY DEF ProgressHasOwner, Works
  <1>5. PendingHasWriter'
    BY DEF TypeOK, PendingHasWriter, Owns, IsPending, Saved, Writable, Row, Statuses,
      FailedStatuses, ChannelKnown, RowLoaded, InsertIsOpen, IngestPcs
  <1> QED
    BY <1>1, <1>2, <1>3, <1>4, <1>5

(***************************************************************************)
(* The entry of _backfill_progress is made by the job that will remove it. *)
(***************************************************************************)
LEMMA MarkProgressKeeps ==
    ASSUME IInv, NEW w \in Workers, MarkProgress(w)
    PROVE  IInv'
   <1> USE NoneIsNoProc, WorkersAreNoCrons DEF IInv, Memory, MarkProgress, Procs, Goto, bounds,
     locals
  <1>1. TypeOK'
    BY DEF TypeOK, WorkerPcs, ChannelKnown
  <1>2. Memory'
    BY DEF ChannelKnown, RowLoaded, DeepAfterFull, IngestPcs
  <1>3. InsertIsOpen'
    BY DEF InsertIsOpen, IngestPcs
  <1>4. ProgressHasOwner'
    BY DEF TypeOK, ProgressHasOwner, Works
  <1>5. PendingHasWriter'
    BY DEF PendingHasWriter, Owns, IsPending
  <1> QED
    BY <1>1, <1>2, <1>3, <1>4, <1>5

(***************************************************************************)
(* The job goes on to the deep pass if the cap was hit, and ends otherwise. *)
(***************************************************************************)
LEMMA ClassifiedKeeps ==
    ASSUME IInv, NEW w \in Workers, Classified(w)
    PROVE  IInv'
   <1> USE NoneIsNoProc, WorkersAreNoCrons DEF IInv, Memory, Classified, Procs, Goto, Finish,
     store, bounds, locals
  <1>1. TypeOK'
    <2>1. CASE full[w]
      BY <2>1 DEF TypeOK, WorkerPcs
    <2>2. CASE ~full[w]
      <3>1. Finish(w, "idle")
        BY <2>2
      <3> QED
        BY <3>1 DEF TypeOK, WorkerPcs
    <2> QED
      BY <2>1, <2>2
  <1>2. Memory'
    BY DEF TypeOK, ChannelKnown, RowLoaded, DeepAfterFull, IngestPcs
  <1>3. InsertIsOpen'
    BY DEF TypeOK, InsertIsOpen, IngestPcs
  <1>4. ProgressHasOwner'
    BY DEF TypeOK, ProgressHasOwner, Works
  <1>5. PendingHasWriter'
    BY DEF TypeOK, PendingHasWriter, Owns, IsPending
  <1> QED
    BY <1>1, <1>2, <1>3, <1>4, <1>5

(***************************************************************************)
(* The deep pass loads the row; the entry stays its own.                   *)
(***************************************************************************)
LEMMA BeginDeepKeeps ==
    ASSUME IInv, NEW w \in Workers, BeginDeep(w)
    PROVE  IInv'
  <1> USE NoneIsNoProc, WorkersAreNoCrons DEF IInv, Memory, BeginDeep, Procs, Goto, bounds
  <1>1. user[w] \in Usernames
    BY DEF ChannelKnown
  <1>2. /\ loaded' \in [Procs -> Row \cup {None}]
        /\ loaded'[w] \in Row
        /\ inserted' \in [Usernames -> Procs \cup {None}]
        /\ user' \in [Procs -> Usernames \cup {None}]
        /\ \A q \in Procs : q # w => loaded'[q] = loaded[q] /\ user'[q] = user[q]
        /\ user'[w] = user[w] /\ pc' = [pc EXCEPT ![w] = "deep"]
    BY <1>1, LoadTypes DEF Load
  <1>3. TypeOK'
    BY <1>2, MaxRequestsIsNat, FaultsIsBool DEF TypeOK, WorkerPcs
  <1>4. Memory'
    BY <1>2 DEF TypeOK, ChannelKnown, RowLoaded, DeepAfterFull, IngestPcs
  <1>5. InsertIsOpen'
    BY DEF TypeOK, InsertIsOpen, IngestPcs, Load
  <1>6. ProgressHasOwner'
    BY DEF ProgressHasOwner, Works, Load
  <1>7. PendingHasWriter'
    BY DEF TypeOK, PendingHasWriter, Owns, IsPending, Load
  <1> QED
    BY <1>3, <1>4, <1>5, <1>6, <1>7

(***************************************************************************)
(* A page of the deep pass renews the entry.                               *)
(***************************************************************************)
LEMMA DeepProgressKeeps ==
    ASSUME IInv, NEW w \in Workers, DeepProgress(w)
    PROVE  IInv'
  <1> USE NoneIsNoProc, WorkersAreNoCrons DEF IInv, Memory, DeepProgress, Procs, bounds, locals
  <1>1. TypeOK'
    BY DEF TypeOK, ChannelKnown
  <1>2. Memory'
    BY DEF ChannelKnown, RowLoaded, DeepAfterFull
  <1>3. InsertIsOpen'
    BY DEF InsertIsOpen
  <1>4. ProgressHasOwner'
    BY DEF ProgressHasOwner, Works, DeepAfterFull
  <1>5. PendingHasWriter'
    BY DEF PendingHasWriter, Owns, IsPending
  <1> QED
    BY <1>1, <1>2, <1>3, <1>4, <1>5

(***************************************************************************)
(* The commit of a deep pass makes no row pending, and a pending one that it *)
(* leaves so still has its owner.                                          *)
(***************************************************************************)
LEMMA DeepCommitsKeeps ==
    ASSUME IInv, NEW w \in Workers, DeepCommits(w)
    PROVE  IInv'
   <1> USE NoneIsNoProc, WorkersAreNoCrons DEF IInv, Memory, DeepCommits, Procs, Goto, bounds,
     locals
  <1>1. TypeOK'
    BY DEF TypeOK, Writable, Saved, Released, Row, Statuses, Outcomes, WorkerPcs, ChannelKnown,
      RowLoaded, IngestPcs
  <1>2. Memory'
    BY DEF ChannelKnown, RowLoaded, DeepAfterFull, IngestPcs
  <1>3. InsertIsOpen'
    BY DEF InsertIsOpen, Saved, Released, Writable
  <1>4. ProgressHasOwner'
    BY DEF ProgressHasOwner, Works
  <1>5. PendingHasWriter'
    BY DEF PendingHasWriter, Owns, IsPending, Saved, Writable, Row, FailedStatuses, Outcomes,
      RowLoaded, IngestPcs
  <1> QED
    BY <1>1, <1>2, <1>3, <1>4, <1>5

(***************************************************************************)
(* The finally removes the entry before the job ends.                      *)
(***************************************************************************)
LEMMA PopKeeps ==
    ASSUME IInv, NEW w \in Workers, Pop(w)
    PROVE  IInv'
  <1> USE NoneIsNoProc, WorkersAreNoCrons DEF IInv, Memory, Pop, Procs, Finish, bounds
  <1>1. TypeOK'
    BY DEF TypeOK, WorkerPcs
  <1>2. Memory'
    BY DEF TypeOK, ChannelKnown, RowLoaded, DeepAfterFull, IngestPcs
  <1>3. InsertIsOpen'
    BY DEF InsertIsOpen, IngestPcs
  <1>4. ProgressHasOwner'
    BY DEF ProgressHasOwner, Works
  <1>5. PendingHasWriter'
    BY DEF PendingHasWriter, Owns, IsPending
  <1> QED
    BY <1>1, <1>2, <1>3, <1>4, <1>5

(***************************************************************************)
(* A job that raises because its row is gone leaves no pending row; any    *)
(* other exception is a fault.                                             *)
(***************************************************************************)
LEMMA JobRaisesKeeps ==
    ASSUME IInv, NEW w \in Workers, JobRaises(w)
    PROVE  IInv'
  <1> USE NoneIsNoProc, WorkersAreNoCrons DEF IInv, Memory, JobRaises, Procs, Finish, Fault
  <1>1. TypeOK'
    BY DEF TypeOK, Released, WorkerPcs
  <1>2. Memory'
    BY DEF TypeOK, ChannelKnown, RowLoaded, DeepAfterFull, IngestPcs
  <1>3. InsertIsOpen'
    BY DEF InsertIsOpen, Released
  <1>4. ProgressHasOwner'
    BY DEF ProgressHasOwner, Works
  <1>5. PendingHasWriter'
    BY DEF PendingHasWriter, Owns, IsPending, Writable
  <1> QED
    BY <1>1, <1>2, <1>3, <1>4, <1>5

(***************************************************************************)
(* A batch reads its list.                                                 *)
(***************************************************************************)
LEMMA ListDueKeeps ==
    ASSUME IInv, NEW c \in Crons, ListDue(c)
    PROVE  IInv'
   <1> USE NoneIsNoProc, WorkersAreNoCrons DEF IInv, Memory, ListDue, Procs, Goto, store,
     bounds, locals
  <1>1. TypeOK'
    BY DEF TypeOK, CronPcs
  <1>2. Memory'
    BY DEF ChannelKnown, RowLoaded, DeepAfterFull, IngestPcs
  <1>3. InsertIsOpen'
    BY DEF InsertIsOpen, IngestPcs
  <1>4. ProgressHasOwner'
    BY DEF ProgressHasOwner, Works
  <1>5. PendingHasWriter'
    BY DEF PendingHasWriter, Owns, IsPending
  <1> QED
    BY <1>1, <1>2, <1>3, <1>4, <1>5

(***************************************************************************)
(* A batch loads a channel, or inserts one that nobody else sees.          *)
(***************************************************************************)
LEMMA CronLoadKeeps ==
    ASSUME IInv, NEW c \in Crons, CronLoad(c)
    PROVE  IInv'
  <1> USE NoneIsNoProc, WorkersAreNoCrons DEF IInv, Memory, CronLoad, Procs, Goto, bounds
  <1>1. PICK u \in due[c] : Load(c, u, "refreshing") /\ due' = [due EXCEPT ![c] = @ \ {u}]
    OBVIOUS
  <1>2. u \in Usernames
    BY DEF TypeOK
  <1>3. /\ loaded' \in [Procs -> Row \cup {None}]
        /\ loaded'[c] \in Row
        /\ inserted' \in [Usernames -> Procs \cup {None}]
        /\ user' \in [Procs -> Usernames \cup {None}]
        /\ \A q \in Procs : q # c => loaded'[q] = loaded[q] /\ user'[q] = user[q]
        /\ user'[c] = u /\ pc' = [pc EXCEPT ![c] = "refreshing"]
    BY <1>1, <1>2, LoadTypes DEF Load
  <1>4. TypeOK'
    BY <1>1, <1>3, MaxRequestsIsNat, FaultsIsBool, ZenonT(40) DEF TypeOK, CronPcs
  <1>5. Memory'
    BY <1>3 DEF TypeOK, ChannelKnown, RowLoaded, DeepAfterFull, IngestPcs
  <1>6. InsertIsOpen'
    BY DEF TypeOK, InsertIsOpen, IngestPcs, Load
  <1>7. ProgressHasOwner'
    BY DEF ProgressHasOwner, Works, Load
  <1>8. PendingHasWriter'
    BY DEF TypeOK, PendingHasWriter, Owns, IsPending, Load, ChannelKnown, RowLoaded,
      InsertIsOpen, IngestPcs
  <1> QED
    BY <1>4, <1>5, <1>6, <1>7, <1>8

(***************************************************************************)
(* Nor does the commit of a batch.                                         *)
(***************************************************************************)
LEMMA CronCommitsKeeps ==
    ASSUME IInv, NEW c \in Crons, CronCommits(c)
    PROVE  IInv'
  <1> USE NoneIsNoProc, WorkersAreNoCrons DEF IInv, Memory, CronCommits, Procs, Finish, bounds
  <1>1. TypeOK'
    BY MaxRequestsIsNat, FaultsIsBool DEF TypeOK, Writable, Saved, Released, Row, Statuses,
      FailedStatuses, Outcomes, CronPcs, ChannelKnown, RowLoaded, IngestPcs
  <1>2. Memory'
    BY DEF TypeOK, ChannelKnown, RowLoaded, DeepAfterFull, IngestPcs, Saved
  <1>3. InsertIsOpen'
    BY DEF TypeOK, InsertIsOpen, IngestPcs, Saved, Released, Writable, ChannelKnown
  <1>4. ProgressHasOwner'
    BY DEF ProgressHasOwner, Works
  <1>5. PendingHasWriter'
    BY DEF TypeOK, PendingHasWriter, Owns, IsPending, Saved, Writable, Row, Statuses,
      FailedStatuses, Outcomes, ChannelKnown, RowLoaded, InsertIsOpen, IngestPcs
  <1> QED
    BY <1>1, <1>2, <1>3, <1>4, <1>5

(***************************************************************************)
(* An ingest of a batch that raises rolls back.                            *)
(***************************************************************************)
LEMMA CronRaisesKeeps ==
    ASSUME IInv, NEW c \in Crons, CronRaises(c)
    PROVE  IInv'
  <1> USE NoneIsNoProc, WorkersAreNoCrons DEF IInv, Memory, CronRaises, Procs, Finish, Fault
  <1>1. TypeOK'
    BY MaxRequestsIsNat, FaultsIsBool DEF TypeOK, Writable, Released, CronPcs, ChannelKnown,
      RowLoaded, IngestPcs
  <1>2. Memory'
    BY DEF TypeOK, ChannelKnown, RowLoaded, DeepAfterFull, IngestPcs
  <1>3. InsertIsOpen'
    BY DEF InsertIsOpen, Released
  <1>4. ProgressHasOwner'
    BY DEF ProgressHasOwner, Works
  <1>5. PendingHasWriter'
    BY DEF TypeOK, PendingHasWriter, Owns, IsPending, Writable, ChannelKnown, RowLoaded,
      InsertIsOpen, IngestPcs
  <1> QED
    BY <1>1, <1>2, <1>3, <1>4, <1>5

(***************************************************************************)
(* A batch that ends forgets its list.                                     *)
(***************************************************************************)
LEMMA CronEndsKeeps ==
    ASSUME IInv, NEW c \in Crons, CronEnds(c)
    PROVE  IInv'
   <1> USE NoneIsNoProc, WorkersAreNoCrons DEF IInv, Memory, CronEnds, Procs, Goto, store,
     bounds, locals
  <1>1. TypeOK'
    BY DEF TypeOK, CronPcs
  <1>2. Memory'
    BY DEF ChannelKnown, RowLoaded, DeepAfterFull, IngestPcs
  <1>3. InsertIsOpen'
    BY DEF InsertIsOpen, IngestPcs
  <1>4. ProgressHasOwner'
    BY DEF ProgressHasOwner, Works
  <1>5. PendingHasWriter'
    BY DEF PendingHasWriter, Owns, IsPending
  <1> QED
    BY <1>1, <1>2, <1>3, <1>4, <1>5

(***************************************************************************)
(* A request that raises after its commit is a fault.                      *)
(***************************************************************************)
LEMMA RequestRaisesKeeps ==
    ASSUME IInv, NEW w \in Workers, RequestRaises(w)
    PROVE  IInv'
   <1> USE NoneIsNoProc, WorkersAreNoCrons DEF IInv, Memory, RequestRaises, Procs, Finish,
     Fault, store
  <1>1. TypeOK'
    BY DEF TypeOK, WorkerPcs
  <1>2. Memory'
    BY DEF TypeOK, ChannelKnown, RowLoaded, DeepAfterFull, IngestPcs
  <1>3. InsertIsOpen'
    BY DEF InsertIsOpen, IngestPcs
  <1>4. ProgressHasOwner'
    BY DEF ProgressHasOwner, Works
  <1>5. PendingHasWriter'
    BY DEF PendingHasWriter
  <1> QED
    BY <1>1, <1>2, <1>3, <1>4, <1>5

(***************************************************************************)
(* A restart is a fault, and empties _backfill_progress.                   *)
(***************************************************************************)
LEMMA CrashKeeps ==
    ASSUME IInv, Crash
    PROVE  IInv'
  <1> USE NoneIsNoProc, WorkersAreNoCrons DEF IInv, Memory, Crash, Procs, Fault
  <1>1. TypeOK'
    BY DEF TypeOK, CronPcs, WorkerPcs
  <1>2. Memory'
    BY DEF ChannelKnown, RowLoaded, DeepAfterFull, IngestPcs
  <1>3. InsertIsOpen'
    BY DEF InsertIsOpen
  <1>4. ProgressHasOwner'
    BY DEF ProgressHasOwner
  <1>5. PendingHasWriter'
    BY DEF PendingHasWriter
  <1> QED
    BY <1>1, <1>2, <1>3, <1>4, <1>5
-----------------------------------------------------------------------------
(***************************************************************************)
(* The system starts with no rows and nothing under way.                   *)
(***************************************************************************)
LEMMA LifecycleStart == Init => IInv
  <1> SUFFICES ASSUME Init PROVE IInv
    OBVIOUS
  <1> USE NoneIsNoProc DEF Init, Procs
  <1>1. TypeOK
    <2>1. "idle" \in WorkerPcs /\ "idle" \in CronPcs
      BY DEF WorkerPcs, CronPcs
    <2>2. 0 \in 0 .. MaxRequests
      BY MaxRequestsIsNat
    <2> QED
      BY <2>1, <2>2 DEF TypeOK
  <1>2. Memory
    BY DEF Memory, ChannelKnown, RowLoaded, DeepAfterFull, IngestPcs
  <1>3. InsertIsOpen /\ ProgressHasOwner
    BY DEF InsertIsOpen, ProgressHasOwner
  <1>4. PendingHasWriter
    BY DEF PendingHasWriter, IsPending
  <1> QED
    BY <1>1, <1>2, <1>3, <1>4 DEF IInv

(***************************************************************************)
(* Every step of a request, of its job or of the browser keeps it.         *)
(***************************************************************************)
LEMMA WorkerKeeps ==
    ASSUME IInv, NEW w \in Workers,
           \/ WorkerStep(w) \/ DeepProgress(w) \/ RequestRaises(w)
           \/ \E u \in Usernames : \/ Create(w, u) \/ Refresh(w, u)
                                   \/ BrowserStep(w, u) \/ OpenPage(w, u)
    PROVE  IInv'
  <1>1. CASE WorkerStep(w)
    BY <1>1, MarkCommitsKeeps, MarkRaisesKeeps, OverviewKeeps, OverviewGoneKeeps, RenderKeeps,
      BeginFastKeeps, FastSucceedsKeeps, FastFailsKeeps, MarkProgressKeeps, ClassifiedKeeps,
      BeginDeepKeeps, DeepCommitsKeeps, PopKeeps, JobRaisesKeeps DEF WorkerStep
  <1>2. CASE DeepProgress(w) \/ RequestRaises(w)
    BY <1>2, DeepProgressKeeps, RequestRaisesKeeps
  <1>3. CASE \E u \in Usernames : Create(w, u) \/ Refresh(w, u)
    BY <1>3, CreateKeeps, RefreshKeeps
  <1>4. CASE \E u \in Usernames : BrowserStep(w, u) \/ OpenPage(w, u)
    BY <1>4, ReadKeeps, PollGoneKeeps DEF BrowserStep, Poll, OpenPage
  <1> QED
    BY <1>1, <1>2, <1>3, <1>4

(***************************************************************************)
(* Every step of the system keeps the invariant.                           *)
(***************************************************************************)
LEMMA LifecycleStep == IInv /\ [Next]_vars => IInv'
  <1> SUFFICES ASSUME IInv, [Next]_vars PROVE IInv'
    OBVIOUS
  <1>1. CASE UNCHANGED vars
    BY <1>1 DEF vars, bounds, IInv, TypeOK, Memory, ChannelKnown, RowLoaded, DeepAfterFull,
      InsertIsOpen, ProgressHasOwner, Works, PendingHasWriter, Owns, IsPending
  <1>2. CASE \E w \in Workers :
                \/ WorkerStep(w) \/ DeepProgress(w) \/ RequestRaises(w)
                \/ \E u \in Usernames : \/ Create(w, u) \/ Refresh(w, u)
                                        \/ BrowserStep(w, u) \/ OpenPage(w, u)
    BY <1>2, WorkerKeeps
  <1>3. CASE \E u \in Usernames : Delete(u)
    BY <1>3, DeleteKeeps
  <1>4. CASE \E c \in Crons : ListDue(c) \/ CronStep(c)
    BY <1>4, ListDueKeeps, CronLoadKeeps, CronCommitsKeeps, CronRaisesKeeps, CronEndsKeeps DEF
      CronStep
  <1>5. CASE Crash
    BY <1>5, CrashKeeps
  <1> QED
    BY <1>1, <1>2, <1>3, <1>4, <1>5 DEF Next

(***************************************************************************)
(* The invariant holds throughout, with faults or without.                 *)
(***************************************************************************)
THEOREM LifecycleInvariant == Spec => []IInv
  BY LifecycleStart, LifecycleStep, PTL DEF Spec

(***************************************************************************)
(* Every variable keeps its type, whatever the processes interleave.       *)
(***************************************************************************)
THEOREM LifecycleTypes == Spec => []TypeOK
  BY LifecycleInvariant DEF IInv

(***************************************************************************)
(* Until something raises or the process restarts, a channel that shows    *)
(* "pending" has a request or a job whose fast pass is still to come.      *)
(***************************************************************************)
THEOREM PendingIsNeverAbandoned == Spec => []PendingOwnedUntilFault
  <1>1. IInv => PendingOwnedUntilFault
    BY DEF IInv, PendingHasWriter, Owns, PendingOwnedUntilFault, PendingIsOwned, IsPending,
      Works
  <1> QED
    BY <1>1, LifecycleInvariant, PTL

(***************************************************************************)
(* Without a fault the escape clause never holds: pending is owned always. *)
(***************************************************************************)
THEOREM WithoutFaultsPendingIsOwned ==
    ASSUME ~Faults
    PROVE  Spec => []PendingIsOwned
  <1>1. Init => ~faulty
    BY DEF Init
  <1>2. ~faulty /\ [Next]_vars => ~faulty'
    BY ZenonT(40) DEF Next, vars, bounds, Fault, Request, WorkerStep, BrowserStep, CronStep, Create,
      Refresh, MarkCommits, MarkRaises, Delete, Overview, OverviewGone, Read, Poll, OpenPage,
      PollGone, Render, BeginFast, FastSucceeds, FastFails, MarkProgress, Classified,
      BeginDeep, DeepProgress, DeepCommits, Pop, JobRaises, ListDue, CronLoad, CronCommits,
      CronRaises, CronEnds, RequestRaises, Crash
  <1>3. Spec => []~faulty
    BY <1>1, <1>2, PTL DEF Spec
  <1>4. ~faulty /\ PendingOwnedUntilFault => PendingIsOwned
    BY DEF PendingOwnedUntilFault
  <1> QED
    BY <1>3, <1>4, PendingIsNeverAbandoned, PTL

(***************************************************************************)
(* An entry of _backfill_progress always has a job that will remove it.    *)
(***************************************************************************)
THEOREM ProgressIsNeverOrphaned == Spec => []ProgressHasOwner
  BY LifecycleInvariant DEF IInv

(***************************************************************************)
(* An uncommitted INSERT belongs to an ingest under way, and excludes a    *)
(* committed row of the same username.                                     *)
(***************************************************************************)
THEOREM OpenInsertsAreOwned == Spec => []InsertIsOpen
  BY LifecycleInvariant DEF IInv
=============================================================================
