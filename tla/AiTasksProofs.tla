---------------------------- MODULE AiTasksProofs ----------------------------
(***************************************************************************)
(* Proofs about AiTasks, for any number of jobs and posts and any sizes of *)
(* batches and limits.                                                     *)
(***************************************************************************)
EXTENDS AiTasks, FiniteSetTheorems, SequenceTheorems, TLAPS

RowsIn(statement) == {statement[i] : i \in DOMAIN statement}

(***************************************************************************)
(* A session that is idle has nothing; only one that writes has rows to    *)
(* write, or rows of a statement that is not done.                         *)
(***************************************************************************)
LocalsAgree ==
    \A s \in Sessions :
        /\ pc[s] = "idle" => written[s] = {} /\ count[s] = 0
        /\ pc[s] # "idle" => task[s] \in {"classify", "explain"}
        /\ pc[s] = "writing" <=> rows[s] # <<>>
        /\ pc[s] # "writing" => touched[s] = {}
        /\ touched[s] \subseteq written[s]

(***************************************************************************)
(* No post is asked about twice, so a row that a statement will write has  *)
(* not been written by an earlier statement of the same run.               *)
(***************************************************************************)
AskedOnce ==
    \A s \in Sessions :
        /\ todo[s] \cap (written[s] \cup RowsIn(rows[s])) = {}
        /\ RowsIn(rows[s]) \cap written[s] \subseteq touched[s]

(***************************************************************************)
(* The count is the number of rows that finished statements have written.  *)
(***************************************************************************)
CountIsWritten ==
    \A s \in Sessions : task[s] = "classify" => count[s] = Cardinality(written[s] \ touched[s])

(***************************************************************************)
(* A note to be returned is written or was cached, unless its post is gone *)
(* for good: ids are not given twice.                                      *)
(***************************************************************************)
NotesAreKept ==
    /\ live \subseteq 1 .. newest
    /\ \A s \in Sessions :
          /\ notes[s] \subseteq 1 .. newest
          /\ task[s] = "explain" =>
                \A p \in notes[s] \cap live : p \in written[s] \/ "anomaly_note" \in filled[p]

IInv == TypeOK /\ LocalsAgree /\ AskedOnce /\ NoOrphanAnnotations /\ CountIsWritten /\ NotesAreKept
-----------------------------------------------------------------------------
(***************************************************************************)
(* The limits of the two tasks, as numbers.                                *)
(***************************************************************************)
LEMMA Sizes == {MaxPost, BatchSize, MaxBatches, MaxAnomalies} \subseteq Nat
  BY SizesArePositive

(***************************************************************************)
(* A session between two statements has no rows to write.                  *)
(***************************************************************************)
LEMMA EmptyStatement == RowsIn(<<>>) = {}
  BY DEF RowsIn

(***************************************************************************)
(* A set of posts can be counted.                                          *)
(***************************************************************************)
LEMMA PostsAreFinite ==
    ASSUME NEW S \in SUBSET Posts
    PROVE  IsFiniteSet(S) /\ Cardinality(S) \in Nat
  <1>1. MaxPost \in Nat
    BY SizesArePositive
  <1>2. IsFiniteSet(Posts)
    BY <1>1, FS_Interval DEF Posts
  <1> QED
    BY <1>2, FS_Subset, FS_CardinalityType

(***************************************************************************)
(* Writing the first row of a statement leaves some of its rows.           *)
(***************************************************************************)
LEMMA RowsOfAStatement ==
    ASSUME NEW S \in SUBSET Posts, NEW r \in Seq(S)
    PROVE  /\ r \in Seq(Posts)
           /\ RowsIn(r) \subseteq S
           /\ RowsIn(<<>>) = {}
           /\ r # <<>> => /\ Head(r) \in RowsIn(r)
                          /\ RowsIn(Tail(r)) \subseteq RowsIn(r)
                          /\ Tail(r) \in Seq(S)
  <1>1. r \in Seq(Posts) /\ RowsIn(r) \subseteq S /\ RowsIn(<<>>) = {}
    BY DEF RowsIn
  <1>2. ASSUME r # <<>>
        PROVE  /\ Head(r) \in RowsIn(r)
               /\ RowsIn(Tail(r)) \subseteq RowsIn(r)
               /\ Tail(r) \in Seq(S)
    <2>1. /\ Head(r) = r[1] /\ 1 \in DOMAIN r
          /\ Tail(r) \in Seq(S) /\ Len(Tail(r)) = Len(r) - 1 /\ Len(r) \in Nat
          /\ \A i \in 1 .. Len(Tail(r)) : Tail(r)[i] = r[i + 1]
      BY <1>2, HeadTailProperties, LenProperties, EmptySeq
    <2> QED
      BY <2>1 DEF RowsIn
  <1> QED
    BY <1>1, <1>2

(***************************************************************************)
(* The valid items of an answer are about posts of the prompt, and the     *)
(* prompt is a part of what is left to ask.                                *)
(***************************************************************************)
LEMMA AnswersAreStatements ==
    ASSUME TypeOK, NEW s \in Sessions, NEW prompt \in Prompts(s), NEW answer \in Answers(s, prompt)
    PROVE  prompt \subseteq todo[s] /\ answer \in Seq(prompt)
  <1>1. prompt \subseteq todo[s]
    BY DEF Prompts, Lowest
  <1>2. \E n \in Nat : answer \in [1 .. n -> prompt]
    <2>1. CASE task[s] = "explain"
      BY <2>1 DEF Answers
    <2>2. CASE task[s] # "explain"
      <3>1. \E n \in 0 .. BatchSize : answer \in [1 .. n -> prompt]
        BY <2>2 DEF Answers
      <3> QED
        BY <3>1, Sizes
    <2> QED
      BY <2>1, <2>2
  <1> QED
    BY <1>1, <1>2, SeqDef
-----------------------------------------------------------------------------
(***************************************************************************)
(* A new post is given an id that none has had.                            *)
(***************************************************************************)
LEMMA ArriveKeeps ==
    ASSUME IInv, Arrive
    PROVE  IInv'
  <1> USE Sizes DEF IInv, Arrive, channel, locals
  <1>1. TypeOK'
    BY DEF TypeOK, Posts
  <1>2. LocalsAgree'
    BY DEF LocalsAgree
  <1>3. AskedOnce'
    BY DEF AskedOnce
  <1>4. NoOrphanAnnotations'
    BY DEF NoOrphanAnnotations
  <1>5. CountIsWritten'
    BY DEF CountIsWritten
  <1>6. NotesAreKept'
    BY DEF TypeOK, NotesAreKept
  <1> QED
    BY <1>1, <1>2, <1>3, <1>4, <1>5, <1>6

(***************************************************************************)
(* delete_channel waits for the sessions that have written annotations, so *)
(* none of these loses the post it belongs to.                             *)
(***************************************************************************)
LEMMA DeleteKeeps ==
    ASSUME IInv, Delete
    PROVE  IInv'
  <1> USE Sizes DEF IInv, Delete, channel, locals
  <1>1. TypeOK'
    BY DEF TypeOK
  <1>2. LocalsAgree'
    BY DEF LocalsAgree
  <1>3. AskedOnce'
    BY DEF AskedOnce
  <1>4. NoOrphanAnnotations'
    BY DEF NoOrphanAnnotations
  <1>5. CountIsWritten'
    BY DEF CountIsWritten
  <1>6. NotesAreKept'
    BY DEF NotesAreKept
  <1> QED
    BY <1>1, <1>2, <1>3, <1>4, <1>5, <1>6

(***************************************************************************)
(* A classification begins with posts to ask about and nothing written.    *)
(***************************************************************************)
LEMMA BeginClassifyKeeps ==
    ASSUME IInv, NEW s \in Sessions, BeginClassify(s)
    PROVE  IInv'
  <1> USE Sizes DEF IInv, BeginClassify, Begin, Following, channel, locals
  <1>1. TypeOK'
    BY DEF TypeOK, Lowest
  <1>2. LocalsAgree'
    BY DEF TypeOK, LocalsAgree
  <1>3. AskedOnce'
    <2>1. written[s] = {} /\ rows[s] = <<>> /\ touched[s] = {}
      BY DEF LocalsAgree
    <2> QED
      BY <2>1, EmptyStatement DEF AskedOnce
  <1>4. NoOrphanAnnotations'
    BY DEF NoOrphanAnnotations
  <1>5. CountIsWritten'
    <2>1. written[s] \ touched[s] = {} /\ count[s] = 0
      BY DEF LocalsAgree
    <2> QED
      BY <2>1, FS_EmptySet DEF TypeOK, CountIsWritten
  <1>6. NotesAreKept'
    BY DEF NotesAreKept
  <1> QED
    BY <1>1, <1>2, <1>3, <1>4, <1>5, <1>6

(***************************************************************************)
(* An explanation begins with the notes that are cached.                   *)
(***************************************************************************)
LEMMA BeginExplainKeeps ==
    ASSUME IInv, NEW s \in Sessions, BeginExplain(s)
    PROVE  IInv'
  <1> USE Sizes DEF IInv, Begin, Following, channel, locals
  <1>1. PICK anomalies \in SUBSET live :
              Begin(s, "explain", anomalies \ {p \in anomalies : "anomaly_note" \in filled[p]},
                    {p \in anomalies : "anomaly_note" \in filled[p]})
    BY DEF BeginExplain
  <1>2. TypeOK'
    BY <1>1 DEF TypeOK
  <1>3. LocalsAgree'
    BY <1>1 DEF TypeOK, LocalsAgree
  <1>4. AskedOnce'
    <2>1. written[s] = {} /\ rows[s] = <<>> /\ touched[s] = {}
      BY <1>1 DEF LocalsAgree
    <2> QED
      BY <1>1, <2>1, EmptyStatement DEF AskedOnce
  <1>5. NoOrphanAnnotations'
    BY <1>1 DEF NoOrphanAnnotations
  <1>6. CountIsWritten'
    BY <1>1 DEF CountIsWritten
  <1>7. NotesAreKept'
    BY <1>1 DEF TypeOK, LocalsAgree, NotesAreKept, Upserted
  <1> QED
    BY <1>2, <1>3, <1>4, <1>5, <1>6, <1>7

(***************************************************************************)
(* An answer takes its prompt out of what is left to ask, so that its rows *)
(* are new.                                                                *)
(***************************************************************************)
LEMMA AnswerKeeps ==
    ASSUME IInv, NEW s \in Sessions, Answer(s)
    PROVE  IInv'
  <1> USE Sizes DEF IInv, Answer, Following, Answered, channel, locals
  <1>1. PICK prompt \in Prompts(s) : \E answer \in Answers(s, prompt) : Answered(s, prompt, answer)
    OBVIOUS
  <1>2. PICK answer \in Answers(s, prompt) : Answered(s, prompt, answer)
    BY <1>1
  <1>3. /\ prompt \subseteq todo[s] /\ answer \in Seq(Posts) /\ RowsIn(answer) \subseteq prompt
    <2>1. prompt \subseteq todo[s] /\ answer \in Seq(prompt)
      BY AnswersAreStatements
    <2>2. prompt \in SUBSET Posts
      BY <2>1 DEF TypeOK
    <2> QED
      BY <2>1, <2>2, RowsOfAStatement
  <1>4. TypeOK'
    BY <1>2, <1>3 DEF TypeOK
  <1>5. LocalsAgree'
    BY DEF TypeOK, LocalsAgree
  <1>6. AskedOnce'
    BY <1>2, <1>3 DEF TypeOK, AskedOnce
  <1>7. NoOrphanAnnotations'
    BY DEF NoOrphanAnnotations
  <1>8. CountIsWritten'
    BY DEF CountIsWritten
  <1>9. NotesAreKept'
    BY DEF NotesAreKept
  <1> QED
    BY <1>4, <1>5, <1>6, <1>7, <1>8, <1>9

(***************************************************************************)
(* A call that fails gives up what is left to ask, and writes nothing.     *)
(***************************************************************************)
LEMMA UnavailableKeeps ==
    ASSUME IInv, NEW s \in Sessions, Unavailable(s)
    PROVE  IInv'
  <1> USE Sizes DEF IInv, Unavailable, channel, locals
  <1>1. TypeOK'
    BY DEF TypeOK
  <1>2. LocalsAgree'
    BY DEF LocalsAgree
  <1>3. AskedOnce'
    BY DEF AskedOnce
  <1>4. NoOrphanAnnotations'
    BY DEF NoOrphanAnnotations
  <1>5. CountIsWritten'
    BY DEF CountIsWritten
  <1>6. NotesAreKept'
    BY DEF NotesAreKept
  <1> QED
    BY <1>1, <1>2, <1>3, <1>4, <1>5, <1>6

(***************************************************************************)
(* A row is written; with the last one the statement is done, and the job  *)
(* reports the rows that it has written, each once.                        *)
(***************************************************************************)
LEMMA WriteRowKeeps ==
    ASSUME IInv, NEW s \in Sessions, WriteRow(s)
    PROVE  IInv'
  <1> USE Sizes DEF IInv, WriteRow, Following, Report, WaitsFor, channel, locals
  <1>1. /\ rows[s] \in Seq(Posts) /\ rows[s] # <<>>
        /\ Row(s) \in RowsIn(rows[s]) /\ Row(s) \in Posts /\ Row(s) \notin touched[s]
        /\ Tail(rows[s]) \in Seq(Posts) /\ RowsIn(Tail(rows[s])) \subseteq RowsIn(rows[s])
    <2>1. rows[s] \in Seq(Posts) /\ rows[s] # <<>>
      BY DEF TypeOK, LocalsAgree
    <2>2. Row(s) \in RowsIn(rows[s]) /\ RowsIn(rows[s]) \subseteq Posts
          /\ Tail(rows[s]) \in Seq(Posts) /\ RowsIn(Tail(rows[s])) \subseteq RowsIn(rows[s])
      BY <2>1, RowsOfAStatement DEF Row
    <2> QED
      BY <2>1, <2>2
  <1>2. /\ written' = [written EXCEPT ![s] = @ \cup {Row(s)}]
        /\ rows' = [rows EXCEPT ![s] = Tail(@)]
        /\ Row(s) \notin written[s]
    BY <1>1 DEF AskedOnce
  <1>3. TypeOK'
    <2> DEFINE statement == touched[s] \cup {Row(s)}
    <2>1. statement \in SUBSET Posts /\ Cardinality(statement) \in Nat
      <3>1. statement \in SUBSET Posts
        BY DEF TypeOK
      <3> QED
        BY <3>1, PostsAreFinite
    <2>2. rows' \in [Sessions -> Seq(Posts)] /\ written' \in [Sessions -> SUBSET Posts]
      BY <1>1 DEF TypeOK
    <2>3. touched' \in [Sessions -> SUBSET Posts]
      BY <2>1 DEF TypeOK
    <2>4. /\ \/ count' = count
             \/ count' = [count EXCEPT ![s] = @ + Cardinality(statement)]
          /\ \/ notes' = notes
             \/ notes' = [notes EXCEPT ![s] = @ \cup statement]
      OBVIOUS
    <2>5. count' \in [Sessions -> Nat]
      <3>1. CASE count' = count
        BY <3>1 DEF TypeOK
      <3>2. CASE count' = [count EXCEPT ![s] = @ + Cardinality(statement)]
        <4> HIDE DEF WriteRow, statement
        <4> QED
          BY <2>1, <3>2 DEF TypeOK
      <3> QED
        BY <2>4, <3>1, <3>2
    <2>6. notes' \in [Sessions -> SUBSET Posts]
      <3>1. CASE notes' = notes
        BY DEF TypeOK
      <3>2. CASE notes' = [notes EXCEPT ![s] = @ \cup statement]
        <4> HIDE DEF WriteRow, statement
        <4> QED
          BY <2>1, <3>2 DEF TypeOK
      <3> QED
        BY <2>4, <3>1, <3>2
    <2> QED
      BY <2>2, <2>3, <2>5, <2>6 DEF TypeOK
  <1>4. LocalsAgree'
    BY SMTT(30) DEF TypeOK, LocalsAgree
  <1>5. AskedOnce'
    <2> SUFFICES ASSUME NEW t \in Sessions
                 PROVE  /\ todo'[t] \cap (written'[t] \cup RowsIn(rows'[t])) = {}
                        /\ RowsIn(rows'[t]) \cap written'[t] \subseteq touched'[t]
      BY DEF AskedOnce
    <2>1. CASE t # s
      <3>1. /\ rows'[t] = rows[t] /\ touched'[t] = touched[t]
            /\ written'[t] = written[t] /\ todo'[t] = todo[t]
        BY <2>1 DEF TypeOK
      <3> QED
        BY <3>1 DEF AskedOnce
    <2>2. CASE t = s
      <3>1. /\ RowsIn(rows'[s]) \subseteq RowsIn(rows[s])
            /\ written'[s] = written[s] \cup {Row(s)}
            /\ todo'[s] = todo[s]
        BY <1>1 DEF TypeOK
      <3>2. \/ RowsIn(rows'[s]) = {}
            \/ touched'[s] = touched[s] \cup {Row(s)}
        BY EmptyStatement DEF TypeOK
      <3>3. /\ todo[s] \cap (written[s] \cup RowsIn(rows[s])) = {}
            /\ RowsIn(rows[s]) \cap written[s] \subseteq touched[s]
        BY DEF AskedOnce
      <3> QED
        BY <1>1, <2>2, <3>1, <3>2, <3>3
    <2> QED
      BY <2>1, <2>2
  <1>6. NoOrphanAnnotations'
    BY DEF TypeOK, LocalsAgree, NoOrphanAnnotations, Upserted
  <1>7. CountIsWritten'
    <2> SUFFICES ASSUME NEW t \in Sessions, task[t] = "classify"
                 PROVE  count'[t] = Cardinality(written'[t] \ touched'[t])
      BY DEF CountIsWritten
    <2>1. CASE t # s
      <3>1. count'[t] = count[t] /\ written'[t] = written[t] /\ touched'[t] = touched[t]
        BY <2>1 DEF TypeOK
      <3> QED
        BY <3>1 DEF CountIsWritten
    <2>2. CASE t = s /\ rows'[s] # <<>>
      <3>1. count'[s] = count[s] /\ touched'[s] = touched[s] \cup {Row(s)}
        BY <2>2 DEF TypeOK
      <3>2. written'[s] \ touched'[s] = written[s] \ touched[s]
        BY <1>2, <3>1
      <3> QED
        BY <2>2, <3>2 DEF CountIsWritten
    <2>3. CASE t = s /\ rows'[s] = <<>>
      <3> DEFINE before == written[s] \ touched[s]
                 statement == touched[s] \cup {Row(s)}
      <3>1. /\ written'[s] \ touched'[s] = before \cup statement
            /\ before \cap statement = {}
            /\ before \in SUBSET Posts /\ statement \in SUBSET Posts
        BY <1>2, <2>3 DEF TypeOK, LocalsAgree
      <3>2. Cardinality(before \cup statement) = Cardinality(before) + Cardinality(statement)
        <4>1. IsFiniteSet(before) /\ IsFiniteSet(statement)
          BY <3>1, PostsAreFinite
        <4>2. Cardinality(before \cup statement)
                = Cardinality(before) + Cardinality(statement) - Cardinality(before \cap statement)
          BY <4>1, FS_Union
        <4>3. Cardinality(before) \in Nat /\ Cardinality(statement) \in Nat
          BY <3>1, PostsAreFinite
        <4>4. Cardinality(before \cap statement) = 0
          BY <3>1, FS_EmptySet
        <4> HIDE DEF before, statement
        <4> QED
          BY <4>2, <4>3, <4>4
      <3>3. count'[s] = count[s] + Cardinality(statement)
        BY <2>3 DEF TypeOK
      <3>4. count[s] = Cardinality(before)
        BY <2>3 DEF CountIsWritten
      <3> QED
        BY <2>3, <3>1, <3>2, <3>3, <3>4
    <2> QED
      BY <2>1, <2>2, <2>3
  <1>8. NotesAreKept'
    <2>1. touched[s] \cup {Row(s)} \subseteq written'[s] /\ written'[s] \subseteq live
      BY DEF TypeOK, LocalsAgree, NoOrphanAnnotations
    <2>2. CASE UNCHANGED notes
      BY <2>2 DEF NotesAreKept
    <2>3. CASE notes' = [notes EXCEPT ![s] = @ \cup (touched[s] \cup {Row(s)})]
      <3>1. /\ notes'[s] = notes[s] \cup (touched[s] \cup {Row(s)})
            /\ written[s] \subseteq written'[s]
            /\ \A t \in Sessions : t # s => notes'[t] = notes[t] /\ written'[t] = written[t]
        BY <2>3 DEF TypeOK
      <3> QED
        BY <2>1, <3>1 DEF NotesAreKept
    <2> QED
      BY <2>2, <2>3
  <1> QED
    BY <1>3, <1>4, <1>5, <1>6, <1>7, <1>8

(***************************************************************************)
(* A commit sets the column of its task in the rows that were written.     *)
(***************************************************************************)
LEMMA CommitKeeps ==
    ASSUME IInv, NEW s \in Sessions, Commit(s)
    PROVE  IInv'
  <1> USE Sizes DEF IInv, Commit, End, channel, locals
  <1>1. TypeOK'
    <2>1. pc[s] = "committing" => Column[task[s]] \in Columns
      BY DEF Column, Columns, LocalsAgree
    <2>2. filled' \in [Posts -> SUBSET Columns]
      BY <2>1 DEF TypeOK, Upserted
    <2> QED
      BY <2>2 DEF TypeOK
  <1>2. LocalsAgree'
    BY DEF TypeOK, LocalsAgree
  <1>3. AskedOnce'
    BY DEF LocalsAgree, AskedOnce
  <1>4. NoOrphanAnnotations'
    BY DEF NoOrphanAnnotations
  <1>5. CountIsWritten'
    BY DEF TypeOK, CountIsWritten
  <1>6. NotesAreKept'
    BY DEF TypeOK, NotesAreKept, Upserted
  <1> QED
    BY <1>1, <1>2, <1>3, <1>4, <1>5, <1>6

(***************************************************************************)
(* A job that ends without a commit leaves the table as it was.            *)
(***************************************************************************)
LEMMA AbandonKeeps ==
    ASSUME IInv, NEW s \in Sessions, End(s), UNCHANGED filled
    PROVE  IInv'
  <1> USE Sizes DEF IInv, End, channel, locals
  <1>1. TypeOK'
    BY DEF TypeOK
  <1>2. LocalsAgree'
    BY DEF TypeOK, LocalsAgree
  <1>3. AskedOnce'
    BY DEF TypeOK, AskedOnce
  <1>4. NoOrphanAnnotations'
    BY DEF NoOrphanAnnotations
  <1>5. CountIsWritten'
    BY DEF TypeOK, CountIsWritten
  <1>6. NotesAreKept'
    BY DEF TypeOK, NotesAreKept
  <1> QED
    BY <1>1, <1>2, <1>3, <1>4, <1>5, <1>6
-----------------------------------------------------------------------------
(***************************************************************************)
(* No posts, no jobs.                                                      *)
(***************************************************************************)
LEMMA TasksStart == Init => IInv
  <1> SUFFICES ASSUME Init PROVE IInv
    OBVIOUS
  <1> USE Sizes DEF Init
  <1>1. TypeOK
    BY DEF TypeOK
  <1>2. LocalsAgree
    BY DEF LocalsAgree
  <1>3. AskedOnce
    BY DEF AskedOnce
  <1>4. NoOrphanAnnotations /\ CountIsWritten /\ NotesAreKept
    BY DEF NoOrphanAnnotations, CountIsWritten, NotesAreKept
  <1> QED
    BY <1>1, <1>2, <1>3, <1>4 DEF IInv

(***************************************************************************)
(* Every step keeps the invariant.                                         *)
(***************************************************************************)
LEMMA TasksStep == IInv /\ [Next]_vars => IInv'
  <1> SUFFICES ASSUME IInv, [Next]_vars PROVE IInv'
    OBVIOUS
  <1>1. CASE UNCHANGED vars
    BY <1>1 DEF vars, channel, locals, IInv, TypeOK, LocalsAgree, AskedOnce,
      NoOrphanAnnotations, CountIsWritten, NotesAreKept
  <1>2. CASE Arrive \/ Delete
    BY <1>2, ArriveKeeps, DeleteKeeps
  <1>3. ASSUME NEW s \in Sessions,
               \/ BeginClassify(s) \/ BeginExplain(s)
               \/ Proceed(s) \/ WriteRow(s) \/ Raise(s)
        PROVE  IInv'
    <2>1. CASE StatementFails(s) \/ DeadlockDetected(s) \/ Raise(s)
      BY <2>1, AbandonKeeps DEF StatementFails, DeadlockDetected, Raise
    <2> QED
      BY <1>3, <2>1, BeginClassifyKeeps, BeginExplainKeeps, AnswerKeeps, UnavailableKeeps,
        CommitKeeps, WriteRowKeeps DEF Proceed
  <1> QED
    BY <1>1, <1>2, <1>3 DEF Next

(***************************************************************************)
(* The invariant holds throughout.                                         *)
(***************************************************************************)
THEOREM TasksInvariant == Spec => []IInv
  BY TasksStart, TasksStep, PTL DEF Spec

(***************************************************************************)
(* Every variable keeps its type, in particular a count is never negative. *)
(***************************************************************************)
THEOREM TasksTypes == Spec => []TypeOK
  BY TasksInvariant DEF IInv

(***************************************************************************)
(* No annotation is written, or committed, for a post that is gone: the    *)
(* delete of a channel waits for the jobs that have written.               *)
(***************************************************************************)
THEOREM AnnotationsHavePosts == Spec => []NoOrphanAnnotations
  BY TasksInvariant DEF IInv

(***************************************************************************)
(* While its post is there, no column of an annotation is lost: the upserts *)
(* of the two tasks keep each other's.                                     *)
(***************************************************************************)
THEOREM ColumnsAreNeverLost == Spec => AnnotationsAccumulate
  <1>1. IInv /\ [Next]_vars => [\A p \in live \cap live' : filled[p] \subseteq filled'[p]]_vars
    <2> SUFFICES ASSUME IInv, Next, NEW p \in live \cap live'
                 PROVE  filled[p] \subseteq filled'[p]
      OBVIOUS
    <2>1. p \in Posts
      BY DEF IInv, TypeOK
    <2>2. CASE Arrive \/ Delete
      BY <2>2 DEF Arrive, Delete
    <2>3. ASSUME NEW s \in Sessions,
                 BeginClassify(s) \/ BeginExplain(s) \/ Answer(s) \/ Unavailable(s) \/ WriteRow(s)
                 \/ StatementFails(s) \/ DeadlockDetected(s) \/ Raise(s)
          PROVE  filled' = filled
      BY <2>3 DEF BeginClassify, BeginExplain, Begin, Answer, Unavailable, WriteRow,
        StatementFails, DeadlockDetected, Raise
    <2>4. ASSUME NEW s \in Sessions, Commit(s)
          PROVE  filled[p] \subseteq filled'[p]
      BY <2>1, <2>4 DEF Commit, Upserted
    <2> QED
      BY <2>2, <2>3, <2>4 DEF Next, Proceed
  <1> QED
    BY <1>1, TasksInvariant, PTL DEF Spec, AnnotationsAccumulate

(***************************************************************************)
(* What a job reports when it commits is in the table: it counts each      *)
(* category once, and each note it returns is stored or was.               *)
(***************************************************************************)
THEOREM ReportsAreKept == Spec => ReportsWhatItKept
  <1> DEFINE kept(s) ==
        /\ task[s] = "classify" =>
              count[s] = Cardinality({p \in written[s] : "category" \in filled'[p]})
        /\ task[s] = "explain" => \A p \in notes[s] \cap live : "anomaly_note" \in filled'[p]
  <1>1. ASSUME IInv, NEW s \in Sessions, Commit(s)
        PROVE  kept(s)
    <2>1. /\ touched[s] = {} /\ written[s] \subseteq Posts /\ live \subseteq Posts
          /\ \A p \in Posts : filled'[p] = IF p \in written[s] THEN filled[p] \cup {Column[task[s]]}
                                                               ELSE filled[p]
      BY <1>1 DEF IInv, TypeOK, LocalsAgree, Commit, Upserted
    <2>2. ASSUME task[s] = "classify"
          PROVE  count[s] = Cardinality({p \in written[s] : "category" \in filled'[p]})
      <3>1. {p \in written[s] : "category" \in filled'[p]} = written[s] \ touched[s]
        <4>1. Column[task[s]] = "category"
          BY <2>2 DEF Column
        <4> QED
          BY <2>1, <4>1
      <3> QED
        BY <1>1, <2>2, <3>1 DEF IInv, CountIsWritten
    <2>3. ASSUME task[s] = "explain"
          PROVE  \A p \in notes[s] \cap live : "anomaly_note" \in filled'[p]
      <3>1. Column[task[s]] = "anomaly_note"
        BY <2>3 DEF Column
      <3> QED
        BY <1>1, <2>1, <2>3, <3>1 DEF IInv, NotesAreKept
    <2> QED
      BY <2>2, <2>3
  <1>2. IInv /\ [Next]_vars => [\A s \in Sessions : Commit(s) => kept(s)]_vars
    BY <1>1
  <1> QED
    BY <1>2, TasksInvariant, PTL DEF Spec, ReportsWhatItKept
=============================================================================
