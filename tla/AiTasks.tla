------------------------------ MODULE AiTasks ------------------------------
(***************************************************************************)
(* classify_new_posts and explain_anomalies of services/ai/tasks.py, as    *)
(* the background jobs of one channel run them: each in a session and a    *)
(* transaction of its own, which keeps the rows of post_ai_annotations it  *)
(* has written through the LLM calls that follow.  An LLM call is one      *)
(* await, ending in an answer or AiUnavailableError (module AiGateway).    *)
(* Meanwhile posts arrive, and the channel may be deleted.                 *)
(***************************************************************************)
EXTENDS Naturals, Sequences, FiniteSets

CONSTANTS
    Sessions,
    MaxPost,        \* bound: ids of posts with text
    BatchSize,      \* batch_size
    MaxBatches,     \* max_batches
    MaxAnomalies    \* limit of detect_channel_anomalies

Posts == 1 .. MaxPost

ASSUME SessionsAreFinite == IsFiniteSet(Sessions)
ASSUME SizesArePositive == {MaxPost, BatchSize, MaxBatches, MaxAnomalies} \subseteq Nat \ {0}

VARIABLES
    live,           \* the posts of the channel
    newest,         \* the last id given
    filled,         \* post_ai_annotations: the columns of a post's row that are set
    pc, task,       \* what each session does
    todo,           \* the posts it still has to ask about
    rows,           \* the rows its INSERT still has to write
    touched,        \* the rows its INSERT has written
    written,        \* the rows its transaction has written
    count,          \* classified
    notes           \* notes

channel == <<live, newest>>
locals == <<task, todo, rows, touched, written, count, notes>>
vars == <<channel, filled, pc, locals>>

(* The column a task sets; an annotation without a column is no row. *)
Column == [classify |-> "category", explain |-> "anomaly_note"]
Columns == {"category", "anomaly_note"}

Init ==
    /\ live = {}
    /\ newest = 0
    /\ filled = [p \in Posts |-> {}]
    /\ pc = [s \in Sessions |-> "idle"]
    /\ task = [s \in Sessions |-> "none"]
    /\ todo = [s \in Sessions |-> {}]
    /\ rows = [s \in Sessions |-> <<>>]
    /\ touched = [s \in Sessions |-> {}]
    /\ written = [s \in Sessions |-> {}]
    /\ count = [s \in Sessions |-> 0]
    /\ notes = [s \in Sessions |-> {}]
-----------------------------------------------------------------------------
(* The channel *)

(* An ingest commits a new post. *)
Arrive ==
    /\ newest < MaxPost
    /\ newest' = newest + 1
    /\ live' = live \cup {newest'}
    /\ UNCHANGED <<filled, pc, locals>>

(* Mutant: the foreign key does not cascade. *)
DeleteUncascaded ==
    /\ live # {}
    /\ \A s \in Sessions : written[s] = {}
    /\ live' = {}
    /\ UNCHANGED <<newest, filled, pc, locals>>

(***************************************************************************)
(* delete_channel, and its cascade to posts and annotations.  It waits for *)
(* transactions that have written annotations: they hold these rows, and   *)
(* through the foreign key the posts.                                      *)
(***************************************************************************)
Delete ==
    /\ live # {}
    /\ \A s \in Sessions : written[s] = {}
    /\ live' = {}
    /\ filled' = [p \in Posts |-> {}]
    /\ UNCHANGED <<newest, pc, locals>>
-----------------------------------------------------------------------------
(* The beginning of a run *)

Lowest(S, n) == {p \in S : Cardinality({q \in S : q < p}) < n}

(* The step of a run when a statement is done, or there was none *)
Following(remaining) == IF remaining = {} THEN "committing" ELSE "asking"

Begin(s, name, posts, cached) ==
    /\ pc[s] = "idle"
    /\ task' = [task EXCEPT ![s] = name]
    /\ todo' = [todo EXCEPT ![s] = posts]
    /\ notes' = [notes EXCEPT ![s] = cached]
    /\ pc' = [pc EXCEPT ![s] = Following(posts)]
    /\ UNCHANGED <<channel, filled, rows, touched, written, count>>

(* The posts without an annotation row, oldest id first *)
BeginClassify(s) ==
    Begin(s, "classify", Lowest({p \in live : filled[p] = {}}, MaxBatches * BatchSize), {})

(* Anomalies are posts of the channel; those with a note are skipped. *)
BeginExplain(s) ==
    \E anomalies \in (SUBSET live) \ {{}} :
        /\ Cardinality(anomalies) <= MaxAnomalies
        /\ LET cached == {p \in anomalies : "anomaly_note" \in filled[p]}
           IN  Begin(s, "explain", anomalies \ cached, cached)
-----------------------------------------------------------------------------
(* The LLM call *)

(* The posts of the next prompt: a batch, or one anomaly in the order given *)
Prompts(s) ==
    IF task[s] = "classify" THEN {Lowest(todo[s], BatchSize)} ELSE {{p} : p \in todo[s]}

(* Mutant: the ids in an answer are not compared with those of the prompt. *)
AnswersUnvalidated(s, prompt) ==
    UNION {[1 .. n -> prompt \cup {0}] : n \in 0 .. 1}

(***************************************************************************)
(* The valid items of an answer: posts of the prompt, in any order, some   *)
(* left out; a classification may name a post twice.                       *)
(***************************************************************************)
Answers(s, prompt) ==
    LET Items(n) == [1 .. n -> prompt]
    IN  IF task[s] = "explain" THEN Items(0) \cup Items(1)
        ELSE UNION {Items(n) : n \in 0 .. BatchSize}

Answered(s, prompt, answer) ==
    /\ todo' = [todo EXCEPT ![s] = @ \ prompt]
    /\ rows' = [rows EXCEPT ![s] = answer]
    /\ pc' = [pc EXCEPT ![s] = IF answer = <<>> THEN Following(todo'[s]) ELSE "writing"]

Answer(s) ==
    /\ pc[s] = "asking"
    /\ \E prompt \in Prompts(s) :
          \E answer \in Answers(s, prompt) : Answered(s, prompt, answer)
    /\ UNCHANGED <<channel, filled, task, touched, written, count, notes>>

(* AiUnavailableError: the run keeps what it has. *)
Unavailable(s) ==
    /\ pc[s] = "asking"
    /\ todo' = [todo EXCEPT ![s] = {}]
    /\ pc' = [pc EXCEPT ![s] = "committing"]
    /\ UNCHANGED <<channel, filled, task, rows, touched, written, count, notes>>
-----------------------------------------------------------------------------
(* INSERT ... ON CONFLICT DO UPDATE, row by row *)

Row(s) == Head(rows[s])

(* The row belongs to another transaction; the statement waits for its end. *)
WaitsFor(s, t) == pc[s] = "writing" /\ t # s /\ Row(s) \in written[t]

(* Mutant: the posts of the prompt are counted, not the valid items. *)
ReportFullBatch(s, statement) ==
    IF task[s] = "classify"
    THEN count' = [count EXCEPT ![s] = @ + BatchSize] /\ UNCHANGED notes
    ELSE notes' = [notes EXCEPT ![s] = @ \cup statement] /\ UNCHANGED count

(* What a statement that is done adds to the result of the run *)
Report(s, statement) ==
    IF task[s] = "classify"
    THEN count' = [count EXCEPT ![s] = @ + Cardinality(statement)] /\ UNCHANGED notes
    ELSE notes' = [notes EXCEPT ![s] = @ \cup statement] /\ UNCHANGED count

WriteRow(s) ==
    /\ pc[s] = "writing"
    /\ \A t \in Sessions : ~WaitsFor(s, t)
    /\ Row(s) \in live \ touched[s]
    /\ written' = [written EXCEPT ![s] = @ \cup {Row(s)}]
    /\ rows' = [rows EXCEPT ![s] = Tail(@)]
    /\ LET statement == touched[s] \cup {Row(s)} IN
       \/ /\ rows'[s] # <<>>
          /\ touched' = [touched EXCEPT ![s] = statement]
          /\ UNCHANGED <<pc, count, notes>>
       \/ /\ rows'[s] = <<>>
          /\ touched' = [touched EXCEPT ![s] = {}]
          /\ pc' = [pc EXCEPT ![s] = Following(todo[s])]
          /\ Report(s, statement)
    /\ UNCHANGED <<channel, filled, task, todo>>
-----------------------------------------------------------------------------
(* The end of a run *)

(* Mutant: the session is not closed. *)
EndUnclosed(s) ==
    /\ pc' = [pc EXCEPT ![s] = "idle"]
    /\ task' = [task EXCEPT ![s] = "none"]
    /\ todo' = [todo EXCEPT ![s] = {}]
    /\ rows' = [rows EXCEPT ![s] = <<>>]
    /\ touched' = [touched EXCEPT ![s] = {}]
    /\ count' = [count EXCEPT ![s] = 0]
    /\ notes' = [notes EXCEPT ![s] = {}]
    /\ UNCHANGED <<channel, written>>

End(s) ==
    /\ pc' = [pc EXCEPT ![s] = "idle"]
    /\ task' = [task EXCEPT ![s] = "none"]
    /\ todo' = [todo EXCEPT ![s] = {}]
    /\ rows' = [rows EXCEPT ![s] = <<>>]
    /\ touched' = [touched EXCEPT ![s] = {}]
    /\ written' = [written EXCEPT ![s] = {}]
    /\ count' = [count EXCEPT ![s] = 0]
    /\ notes' = [notes EXCEPT ![s] = {}]
    /\ UNCHANGED channel

(* Mutant: ON CONFLICT replaces the row. *)
Replaced(columns, column) == {column}

(* ON CONFLICT sets the columns of the task only. *)
Upserted(columns, column) == columns \cup {column}

Commit(s) ==
    /\ pc[s] = "committing"
    /\ filled' = [p \in Posts |-> IF p \in written[s]
                                  THEN Upserted(filled[p], Column[task[s]]) ELSE filled[p]]
    /\ End(s)

(***************************************************************************)
(* The statement names a row twice (ON CONFLICT DO UPDATE cannot affect it *)
(* a second time), or a post that has been deleted (foreign key).  The     *)
(* background job swallows the exception, the transaction rolls back.      *)
(***************************************************************************)
StatementFails(s) ==
    /\ pc[s] = "writing"
    /\ Row(s) \in touched[s] \/ Row(s) \notin live
    /\ End(s)
    /\ UNCHANGED filled

(* PostgreSQL ends one of the transactions that wait for each other. *)
Deadlocked(S) == S # {} /\ \A s \in S : \E t \in S : WaitsFor(s, t)

DeadlockDetected(s) ==
    /\ \E S \in SUBSET Sessions : s \in S /\ Deadlocked(S)
    /\ End(s)
    /\ UNCHANGED filled

(* Any other exception, or the end of the process *)
Raise(s) ==
    /\ pc[s] # "idle"
    /\ End(s)
    /\ UNCHANGED filled
-----------------------------------------------------------------------------
Proceed(s) == Answer(s) \/ Unavailable(s) \/ StatementFails(s) \/ DeadlockDetected(s) \/ Commit(s)

Next ==
    \/ Arrive \/ Delete
    \/ \E s \in Sessions : \/ BeginClassify(s) \/ BeginExplain(s)
                           \/ Proceed(s) \/ WriteRow(s) \/ Raise(s)

Spec == Init /\ [][Next]_vars

(* LLM calls are bounded, row locks are queued, deadlocks are detected. *)
FairSpec == Spec /\ \A s \in Sessions : WF_vars(Proceed(s)) /\ SF_vars(WriteRow(s))
-----------------------------------------------------------------------------
(***************************************************************************)
(* Every variable keeps its type.                                          *)
(***************************************************************************)
TypeOK ==
    /\ live \subseteq Posts
    /\ newest \in 0 .. MaxPost
    /\ filled \in [Posts -> SUBSET Columns]
    /\ pc \in [Sessions -> {"idle", "asking", "writing", "committing"}]
    /\ task \in [Sessions -> {"none", "classify", "explain"}]
    /\ todo \in [Sessions -> SUBSET Posts]
    /\ rows \in [Sessions -> Seq(Posts)]
    /\ touched \in [Sessions -> SUBSET Posts]
    /\ written \in [Sessions -> SUBSET Posts]
    /\ count \in [Sessions -> Nat]
    /\ notes \in [Sessions -> SUBSET Posts]

(***************************************************************************)
(* No annotation, committed or about to be, belongs to a post that is      *)
(* gone, although its LLM call began before the delete; and no two open    *)
(* transactions have written the same row.                                 *)
(***************************************************************************)
NoOrphanAnnotations ==
    /\ \A p \in Posts : filled[p] # {} => p \in live
    /\ \A s \in Sessions : written[s] \subseteq live
    /\ \A s, t \in Sessions : s # t => written[s] \cap written[t] = {}

(***************************************************************************)
(* Classification and explanation of one post share a row, in any order    *)
(* and at once: while the post lives, neither loses what the other wrote.  *)
(***************************************************************************)
AnnotationsAccumulate == [][\A p \in live \cap live' : filled[p] \subseteq filled'[p]]_vars

(***************************************************************************)
(* What a run returns is what it has kept, also if the LLM became          *)
(* unavailable halfway: as many posts as it counts are classified by it,   *)
(* and every note it returns for a post that is still there is cached.     *)
(***************************************************************************)
ReportsWhatItKept ==
    [][\A s \in Sessions : Commit(s) =>
          /\ task[s] = "classify" =>
                count[s] = Cardinality({p \in written[s] : "category" \in filled'[p]})
          /\ task[s] = "explain" => \A p \in notes[s] \cap live : "anomaly_note" \in filled'[p]]_vars

(***************************************************************************)
(* Every run ends, though runs wait for each other across LLM calls.       *)
(***************************************************************************)
EveryRunEnds == \A s \in Sessions : pc[s] # "idle" ~> pc[s] = "idle"
=============================================================================
