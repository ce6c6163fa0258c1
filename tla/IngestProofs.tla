---------------------------- MODULE IngestProofs ----------------------------
(***************************************************************************)
(* Proofs that the invariants of Ingest hold for any number of channels,   *)
(* sessions and posts, any pages and any bound on the clock.               *)
(***************************************************************************)
EXTENDS IngestInvariant, TLAPS

(***************************************************************************)
(* The edits of a Channel object (models.py, ingest.py, channels.py) keep  *)
(* a row a row, and never change its id.                                   *)
(***************************************************************************)
LEMMA CreatedRow ==
    ASSUME NEW i \in RowIds
    PROVE  Created(i) \in Row /\ Created(i).id = i
  BY DEF Created, Row, Statuses

(* mark_pending, a success and a failure edit a row, never its id. *)
LEMMA EditedRow ==
    ASSUME NEW row \in Row
    PROVE  /\ Pending(row) \in Row /\ Pending(row).id = row.id
           /\ \A t \in Times : Succeeded(row, t) \in Row /\ Succeeded(row, t).id = row.id
           /\ \A t \in Times, st \in FailedStatuses :
                 Failed(row, st, t) \in Row /\ Failed(row, st, t).id = row.id
  <1>1. Pending(row) \in Row /\ Pending(row).id = row.id
    BY DEF Pending, Row, Statuses
  <1>2. \A t \in Times : Succeeded(row, t) \in Row /\ Succeeded(row, t).id = row.id
    BY DEF Succeeded, Row, Statuses
  <1>3. \A t \in Times, st \in FailedStatuses :
            Failed(row, st, t) \in Row /\ Failed(row, st, t).id = row.id
    <2> TAKE t \in Times, st \in FailedStatuses
    <2>1. row.failures + 1 \in Nat /\ st \in Statuses
      BY DEF Row, Statuses
    <2> QED
      BY <2>1 DEF Failed, Row
  <1> QED
    BY <1>1, <1>2, <1>3

(* An UPDATE of the differing columns leaves a row, under the stored id. *)
LEMMA WrittenRow ==
    ASSUME NEW stored \in Row, NEW before \in Row, NEW after \in Row
    PROVE  /\ Written(stored, before, after) \in Row
           /\ Written(stored, before, after).id = stored.id
  BY DEF Written, Row

(***************************************************************************)
(* What a fetch returns (parser/types.py) is made of known messages,       *)
(* hashes and values.                                                      *)
(***************************************************************************)
LEMMA PageType ==
    ASSUME NEW p \in Pages
    PROVE  /\ DOMAIN p.posts \subseteq Messages
           /\ \A m \in DOMAIN p.posts : /\ p.posts[m].hash \in Hashes
                                        /\ p.posts[m].metric \in Values \cup {None}
           /\ p.counters \in Values \cup {None}
  <1>1. p \in Page
    BY PagesAreParsed
  <1>2. PICK S \in SUBSET Messages :
            p.posts \in [S -> [hash : Hashes, metric : Values \cup {None}]]
    BY <1>1 DEF Page
  <1> QED
    BY <1>1, <1>2 DEF Page

(***************************************************************************)
(* A snapshot writer adds a point only if it differs from the last one.    *)
(***************************************************************************)
LEMMA SnapshotFits ==
    ASSUME NEW history \in Seq(Points), NEW value \in Values \cup {None}, NEW t \in Times
    PROVE  /\ Snapshot(history, value, t) \in Points \cup {None}
           /\ Fits(history, Snapshot(history, value, t))
  BY NoneIsNoPoint DEF Snapshot, Fits, Unchanged, Points

(* A commit appends a point only where it differs from the last one. *)
LEMMA ExtendedHistory ==
    ASSUME NEW history \in Seq(Points), NEW point \in Points \cup {None},
           RepeatFree(history), Fits(history, point)
    PROVE  Extended(history, point) \in Seq(Points) /\ RepeatFree(Extended(history, point))
  <1>1. CASE point = None
    BY <1>1 DEF Extended
  <1>2. CASE point # None
    <2>1. Extended(history, point) = Append(history, point) /\ point \in Points
      BY <1>2 DEF Extended
    <2>2. history = <<>> \/ history[Len(history)].value # point.value
      BY <1>2 DEF Fits, Unchanged
    <2>3. ASSUME NEW k \in 1 .. Len(history)
          PROVE  Append(history, point)[k].value # Append(history, point)[k + 1].value
      <3>1. CASE k < Len(history)
        BY <3>1 DEF RepeatFree
      <3>2. CASE k = Len(history)
        BY <3>2, <2>2
      <3> QED
        BY <3>1, <3>2
    <2> QED
      BY <2>1, <2>3 DEF RepeatFree
  <1> QED
    BY <1>1, <1>2

-----------------------------------------------------------------------------
(***************************************************************************)
(* The type invariant.                                                     *)
(***************************************************************************)
LEMMA TypeInit == Init => TypeOK
  <1> SUFFICES ASSUME Init PROVE TypeOK
    OBVIOUS
  <1> USE DEF Init, StoreInit
  <1>1. rows \in [Usernames -> Row \cup {None}] /\ lock \in [Usernames -> Sessions \cup {None}]
    OBVIOUS
  <1>2. /\ posts \in [RowIds -> [Messages -> Hashes \cup {None}]]
        /\ metrics \in [RowIds -> [Messages -> Seq(Points)]]
        /\ counters \in [RowIds -> Seq(Points)]
    OBVIOUS
  <1>3. /\ pc \in [Sessions -> StorePcs \cup IngestPcs]
        /\ user \in [Sessions -> Usernames \cup {None}]
        /\ loaded \in [Sessions -> Row \cup {None}]
        /\ object \in [Sessions -> Row \cup {None}]
        /\ result \in [Sessions -> StoreResults \cup Statuses \cup {"raised"}]
    BY DEF StorePcs, StoreResults
  <1>4. clock \in 0 .. MaxClock
    BY MaxClockIsNat
  <1>5. /\ now \in [Sessions -> Times \cup {None}]
        /\ page \in [Sessions -> Pages \cup {None}]
        /\ report \in [Sessions -> [created : SUBSET Messages, edited : SUBSET Messages]]
    BY DEF NoReport
  <1>6. draft \in [Sessions -> Draft]
    BY DEF NoDraft, Draft
  <1> QED
    BY <1>1, <1>2, <1>3, <1>4, <1>5, <1>6 DEF TypeOK

(* The variables that a step of the store alone leaves alone keep their type. *)
LEMMA EndType ==
    ASSUME TypeOK, NEW s \in Sessions,
           NEW outcome \in StoreResults \cup Statuses \cup {"raised"}, End(s, outcome)
    PROVE  /\ lock' \in [Usernames -> Sessions \cup {None}]
           /\ pc' \in [Sessions -> StorePcs \cup IngestPcs]
           /\ user' \in [Sessions -> Usernames \cup {None}]
           /\ loaded' \in [Sessions -> Row \cup {None}]
           /\ object' \in [Sessions -> Row \cup {None}]
           /\ result' \in [Sessions -> StoreResults \cup Statuses \cup {"raised"}]
  BY DEF TypeOK, End, StorePcs

(* The local variables of a call that has ended keep their types. *)
LEMMA ForgetType ==
    ASSUME TypeOK, NEW s \in Sessions, Forget(s)
    PROVE  /\ clock' \in 0 .. MaxClock
           /\ now' \in [Sessions -> Times \cup {None}]
           /\ page' \in [Sessions -> Pages \cup {None}]
           /\ draft' \in [Sessions -> Draft]
           /\ report' \in [Sessions -> [created : SUBSET Messages, edited : SUBSET Messages]]
  BY DEF TypeOK, Forget, Draft, NoDraft, NoReport

(* Writing one table of a draft leaves it a draft. *)
LEMMA DraftType ==
    ASSUME NEW d \in Draft
    PROVE  /\ \A p \in [Messages -> Hashes \cup {None}] : [d EXCEPT !.posts = p] \in Draft
           /\ \A q \in [Messages -> Points \cup {None}] : [d EXCEPT !.metrics = q] \in Draft
           /\ \A c \in Points \cup {None} : [d EXCEPT !.counters = c] \in Draft
  BY DEF Draft

(* A lookup gives the session's variables values of their types. *)
LEMMA LoadedType ==
    ASSUME TypeOK, NEW s \in Sessions, NEW u \in Usernames, NEW row \in Row \cup {None},
           NEW step \in StorePcs \cup IngestPcs, Loaded(s, u, row, step)
    PROVE  /\ lock' \in [Usernames -> Sessions \cup {None}]
           /\ pc' \in [Sessions -> StorePcs \cup IngestPcs]
           /\ user' \in [Sessions -> Usernames \cup {None}]
           /\ loaded' \in [Sessions -> Row \cup {None}]
           /\ object' \in [Sessions -> Row \cup {None}]
           /\ result' \in [Sessions -> StoreResults \cup Statuses \cup {"raised"}]
  BY DEF TypeOK, Loaded, StoreResults

(* Reading the clock (ingest.py:257) keeps it within its bound. *)
LEMMA TickType ==
    ASSUME TypeOK, NEW s \in Sessions, Tick(s)
    PROVE  clock' \in 0 .. MaxClock /\ now' \in [Sessions -> Times \cup {None}]
  BY MaxClockIsNat DEF TypeOK, Tick, Times

(* The row a transaction publishes is a row, with the id it loaded. *)
LEMMA PublishedRow ==
    ASSUME TypeOK, PcInv, NEW s \in Sessions, pc[s] \in RowPcs
    PROVE  /\ user[s] \in Usernames
           /\ loaded[s] \in Row /\ object[s] \in Row /\ Stored(s) \in Row
           /\ Written(Stored(s), loaded[s], object[s]) \in Row
           /\ Written(Stored(s), loaded[s], object[s]).id = Stored(s).id
           /\ Written(Stored(s), loaded[s], Pending(loaded[s])) \in Row
           /\ Written(Stored(s), loaded[s], Pending(loaded[s])).id = Stored(s).id
  <1>1. user[s] \in Usernames /\ loaded[s] \in Row /\ object[s] \in Row
    BY DEF PcInv, RowPcs
  <1>2. Stored(s) \in Row
    BY <1>1 DEF TypeOK, Stored
  <1> QED
    BY <1>1, <1>2, WrittenRow, EditedRow

(* The history tables keep their type when a transaction commits its draft. *)
LEMMA CommitType ==
    ASSUME IInv, NEW s \in Sessions, Commit(s)
    PROVE  /\ posts' \in [RowIds -> [Messages -> Hashes \cup {None}]]
           /\ metrics' \in [RowIds -> [Messages -> Seq(Points)]]
           /\ counters' \in [RowIds -> Seq(Points)]
  <1> DEFINE i == loaded[s].id
             new == draft[s]
  <1>1. pc[s] \in WritePcs /\ i \in RowIds
    BY DEF IInv, IngestInv, PcInv, Commit, WritePcs, RowPcs, IngestPcs, StorePcs, Row
  <1>2. /\ new.posts \in [Messages -> Hashes \cup {None}]
        /\ new.metrics \in [Messages -> Points \cup {None}]
        /\ new.counters \in Points \cup {None}
    BY DEF IInv, TypeOK, Draft
  <1>3. posts' = [posts EXCEPT ![i] =
                    [m \in Messages |-> IF new.posts[m] = None THEN posts[i][m]
                                        ELSE new.posts[m]]]
    BY DEF Commit, Id
  <1>4. \A m \in Messages : Extended(metrics[i][m], new.metrics[m]) \in Seq(Points)
    BY <1>1, <1>2 DEF Extended, IInv, TypeOK
  <1>5. metrics' = [metrics EXCEPT ![i] =
                      [m \in Messages |-> Extended(metrics[i][m], new.metrics[m])]]
    BY DEF Commit, Id
  <1>6. counters' = [counters EXCEPT ![i] = Extended(counters[i], new.counters)]
    BY DEF Commit, Id
  <1>7. Extended(counters[i], new.counters) \in Seq(Points)
    BY <1>1, <1>2 DEF Extended, IInv, TypeOK
  <1> HIDE DEF i, new
  <1>8. posts' \in [RowIds -> [Messages -> Hashes \cup {None}]]
    BY <1>1, <1>2, <1>3 DEF IInv, TypeOK
  <1>9. metrics' \in [RowIds -> [Messages -> Seq(Points)]]
    BY <1>1, <1>4, <1>5 DEF IInv, TypeOK
  <1> QED
    BY <1>1, <1>6, <1>7, <1>8, <1>9 DEF IInv, TypeOK

(* Every step of every session keeps the types of the variables. *)
LEMMA TypeStep == IInv /\ [Next]_vars => TypeOK'
  <1> SUFFICES ASSUME IInv, [Next]_vars PROVE TypeOK'
    OBVIOUS
  <1> USE DEF IInv, IngestInv
  <1>1. ASSUME NEW s \in Sessions, NEW u \in Usernames, AddLookup(s, u), UNCHANGED ingestVars
        PROVE  TypeOK'
    BY <1>1, LoadedType DEF AddLookup, tables, ingestVars, TypeOK, StorePcs
  <1>2. ASSUME NEW s \in Sessions, NEW u \in Usernames, UNCHANGED ingestVars,
               AddRejected(s, u) \/ MarkUnknown(s, u)
        PROVE  TypeOK'
    BY <1>2 DEF AddRejected, MarkUnknown, tables, ingestVars, TypeOK, StoreResults
  <1>3. ASSUME NEW s \in Sessions, AddCommit(s), UNCHANGED ingestVars
        PROVE  TypeOK'
    <2>1. rows' \in [Usernames -> Row \cup {None}]
      BY <1>3, CreatedRow, ZenonT(40) DEF AddCommit, FreshIds, TypeOK
    <2> QED
      BY <1>3, <2>1, EndType DEF AddCommit, ingestVars, TypeOK, StoreResults
  <1>4. ASSUME NEW s \in Sessions, InsertRaises(s), UNCHANGED ingestVars
        PROVE  TypeOK'
    BY <1>4, EndType DEF InsertRaises, tables, ingestVars, TypeOK, StoreResults
  <1>5. ASSUME NEW s \in Sessions, NEW u \in Usernames, MarkLookup(s, u), UNCHANGED ingestVars
        PROVE  TypeOK'
    BY <1>5, LoadedType DEF MarkLookup, tables, ingestVars, TypeOK, StorePcs
  <1>6. ASSUME NEW s \in Sessions, MarkCommit(s), UNCHANGED ingestVars
        PROVE  TypeOK'
    <2>1. Written(Stored(s), loaded[s], Pending(loaded[s])) \in Row
      BY <1>6, PublishedRow DEF MarkCommit, RowPcs, StorePcs
    <2>2. rows' \in [Usernames -> Row \cup {None}]
      BY <1>6, <2>1 DEF MarkCommit, TypeOK
    <2>3. End(s, "ok") \/ End(s, "stale_data")
      BY <1>6 DEF MarkCommit
    <2> QED
      BY <1>6, <2>2, <2>3, EndType DEF MarkCommit, ingestVars, TypeOK, StoreResults
  <1>7. ASSUME NEW s \in Sessions, NEW u \in Usernames, IngestLoad(s, u)
        PROVE  TypeOK'
    BY <1>7, LoadedType, TickType DEF IngestLoad, tables, TypeOK, IngestPcs
  <1>8. ASSUME NEW s \in Sessions, NEW u \in Usernames, IngestUnknown(s, u)
        PROVE  TypeOK'
    BY <1>8, LoadedType DEF IngestUnknown, tables, ingestVars, TypeOK, IngestPcs
  <1>9. ASSUME NEW s \in Sessions, IngestInsert(s)
        PROVE  TypeOK'
    <2>1. PICK i \in RowIds : /\ loaded' = [loaded EXCEPT ![s] = Created(i)]
                               /\ object' = [object EXCEPT ![s] = Created(i)]
      BY <1>9 DEF IngestInsert, FreshIds
    <2>2. loaded' \in [Sessions -> Row \cup {None}] /\ object' \in [Sessions -> Row \cup {None}]
      BY <2>1, CreatedRow DEF TypeOK
    <2>3. lock' \in [Usernames -> Sessions \cup {None}] /\ pc' \in [Sessions -> StorePcs \cup IngestPcs]
      BY <1>9 DEF IngestInsert, TypeOK, IngestPcs
    <2> QED
      BY <1>9, <2>2, <2>3, TickType DEF IngestInsert, tables, TypeOK
  <1>10. ASSUME NEW s \in Sessions, RecordFailure(s)
         PROVE  TypeOK'
    <2>1. /\ Written(Stored(s), loaded[s], object[s]) \in Row
          /\ object[s].status \in Statuses
      BY <1>10, PublishedRow DEF RecordFailure, RowPcs, IngestPcs, StorePcs, Row
    <2>2. rows' \in [Usernames -> Row \cup {None}]
      BY <1>10, <2>1 DEF RecordFailure, Publish, TypeOK
    <2> QED
      BY <1>10, <2>1, <2>2, EndType, ForgetType DEF RecordFailure, TypeOK
  <1>11. ASSUME NEW s \in Sessions, FlushRaises(s) \/ Raise(s)
         PROVE  TypeOK'
    BY <1>11, EndType, ForgetType DEF FlushRaises, Raise, tables, TypeOK, StoreResults
  <1>12. ASSUME NEW s \in Sessions, Flush(s)
         PROVE  TypeOK'
    BY <1>12 DEF Flush, Goto, tables, ingestVars, TypeOK, IngestPcs, WritePcs
  <1>13. ASSUME NEW s \in Sessions, FetchFails(s)
         PROVE  TypeOK'
    <2>1. loaded[s] \in Row /\ now[s] \in Times
      BY <1>13 DEF FetchFails, PcInv, RowPcs, HoldPcs, IngestPcs, StorePcs
    <2>2. object' \in [Sessions -> Row \cup {None}]
      <3>1. PICK st \in FailedStatuses : object' = [object EXCEPT ![s] = Failed(loaded[s], st, now[s])]
        BY <1>13 DEF FetchFails, Edit
      <3>2. Failed(loaded[s], st, now[s]) \in Row
        BY <2>1, EditedRow
      <3> QED
        BY <3>1, <3>2 DEF TypeOK
    <2>3. pc' \in [Sessions -> StorePcs \cup IngestPcs]
      BY <1>13 DEF FetchFails, Goto, TypeOK, IngestPcs
    <2> QED
      BY <1>13, <2>2, <2>3 DEF FetchFails, tables, ingestVars, TypeOK
  <1>14. ASSUME NEW s \in Sessions, FetchReturns(s)
         PROVE  TypeOK'
    <2>1. loaded[s] \in Row /\ now[s] \in Times
      BY <1>14 DEF FetchReturns, PcInv, RowPcs, HoldPcs, IngestPcs, StorePcs
    <2>2. object' \in [Sessions -> Row \cup {None}]
      <3>1. /\ Failed(loaded[s], "private", now[s]) \in Row
            /\ Succeeded(loaded[s], now[s]) \in Row
        BY <2>1, EditedRow DEF FailedStatuses
      <3>2. \/ object' = [object EXCEPT ![s] = Failed(loaded[s], "private", now[s])]
            \/ object' = [object EXCEPT ![s] = Succeeded(loaded[s], now[s])]
        BY <1>14 DEF FetchReturns, Edit
      <3> QED
        BY <3>1, <3>2 DEF TypeOK
    <2>3. pc' \in [Sessions -> StorePcs \cup IngestPcs] /\ page' \in [Sessions -> Pages \cup {None}]
      <3>1. pc' = [pc EXCEPT ![s] = "failing"] \/ pc' = [pc EXCEPT ![s] = "flushing"]
        BY <1>14 DEF FetchReturns, Goto
      <3>2. page' = page \/ \E p \in Pages : page' = [page EXCEPT ![s] = p]
        BY <1>14 DEF FetchReturns
      <3>3. pc' \in [Sessions -> StorePcs \cup IngestPcs]
        BY <3>1 DEF TypeOK, IngestPcs
      <3>4. page' \in [Sessions -> Pages \cup {None}]
        BY <3>2 DEF TypeOK
      <3> QED
        BY <3>3, <3>4
    <2> QED
      BY <1>14, <2>2, <2>3 DEF FetchReturns, tables, TypeOK
  <1>15. ASSUME NEW s \in Sessions, CountPosts(s)
         PROVE  TypeOK'
    <2>1. page[s] \in Pages
      BY <1>15 DEF CountPosts, PcInv, PagePcs, WritePcs
    <2> QED
      BY <1>15, <2>1, PageType DEF CountPosts, Goto, tables, TypeOK, IngestPcs, WritePcs
  <1>16. ASSUME NEW s \in Sessions, UpsertPosts(s)
         PROVE  TypeOK'
    <2>1. page[s] \in Pages
      BY <1>16 DEF UpsertPosts, PcInv, PagePcs, WritePcs
    <2> DEFINE parsed == page[s].posts
               hashes == [m \in Messages |-> IF m \in DOMAIN parsed THEN parsed[m].hash ELSE None]
    <2>2. hashes \in [Messages -> Hashes \cup {None}]
      BY <2>1, PageType
    <2>3. draft' = [draft EXCEPT ![s] = [draft[s] EXCEPT !.posts = hashes]]
      BY <1>16 DEF UpsertPosts
    <2> HIDE DEF hashes
    <2>4. draft' \in [Sessions -> Draft]
      BY <2>2, <2>3, DraftType DEF TypeOK
    <2>5. pc' \in [Sessions -> StorePcs \cup IngestPcs]
      BY <1>16 DEF UpsertPosts, Goto, TypeOK, IngestPcs, WritePcs
    <2> QED
      BY <1>16, <2>4, <2>5 DEF UpsertPosts, tables, TypeOK
  <1>17. ASSUME NEW s \in Sessions, WriteMetrics(s)
         PROVE  TypeOK'
    <2>1. page[s] \in Pages /\ now[s] \in Times /\ Id(s) \in RowIds
      BY <1>17 DEF WriteMetrics, PcInv, PagePcs, HoldPcs, RowPcs, WritePcs, IngestPcs, StorePcs, Id, Row
    <2> DEFINE parsed == page[s].posts
               taken == [m \in Messages |->
                            IF m \in DOMAIN parsed
                            THEN Snapshot(metrics[Id(s)][m], parsed[m].metric, now[s])
                            ELSE None]
    <2>2. ASSUME NEW m \in DOMAIN parsed
          PROVE  Snapshot(metrics[Id(s)][m], parsed[m].metric, now[s]) \in Points \cup {None}
      <3>1. m \in Messages /\ parsed[m].metric \in Values \cup {None}
        BY <2>1, PageType
      <3>2. metrics[Id(s)][m] \in Seq(Points)
        BY <2>1, <3>1 DEF TypeOK
      <3> QED
        BY <2>1, <3>1, <3>2, SnapshotFits
    <2>3. taken \in [Messages -> Points \cup {None}]
      BY <2>2
    <2>4. draft' = [draft EXCEPT ![s] = [draft[s] EXCEPT !.metrics = taken]]
      BY <1>17 DEF WriteMetrics
    <2> HIDE DEF taken
    <2>5. draft' \in [Sessions -> Draft]
      BY <2>3, <2>4, DraftType DEF TypeOK
    <2>6. pc' \in [Sessions -> StorePcs \cup IngestPcs]
      BY <1>17 DEF WriteMetrics, Goto, TypeOK, IngestPcs, WritePcs
    <2> QED
      BY <1>17, <2>5, <2>6 DEF WriteMetrics, tables, TypeOK
  <1>18. ASSUME NEW s \in Sessions, WriteCounters(s)
         PROVE  TypeOK'
    <2>1. page[s] \in Pages /\ now[s] \in Times /\ Id(s) \in RowIds
      BY <1>18 DEF WriteCounters, PcInv, PagePcs, HoldPcs, RowPcs, WritePcs, IngestPcs,
         StorePcs, Id, Row
    <2>2. Snapshot(counters[Id(s)], page[s].counters, now[s]) \in Points \cup {None}
      BY <2>1, PageType, SnapshotFits DEF TypeOK
    <2>3. draft' \in [Sessions -> Draft]
      BY <1>18, <2>2, DraftType DEF WriteCounters, TypeOK
    <2>4. pc' \in [Sessions -> StorePcs \cup IngestPcs]
      BY <1>18 DEF WriteCounters, Goto, TypeOK, IngestPcs, WritePcs
    <2> QED
      BY <1>18, <2>3, <2>4 DEF WriteCounters, tables, TypeOK
  <1>19. ASSUME NEW s \in Sessions, Commit(s)
         PROVE  TypeOK'
    <2>1. Written(Stored(s), loaded[s], object[s]) \in Row
      BY <1>19, PublishedRow DEF Commit, RowPcs, IngestPcs, WritePcs, StorePcs
    <2>2. rows' \in [Usernames -> Row \cup {None}]
      BY <1>19, <2>1 DEF Commit, Publish, TypeOK
    <2> QED
      BY <1>19, <2>2, CommitType, EndType, ForgetType DEF Commit, TypeOK, Statuses
  <1>20. ASSUME NEW u \in Usernames, Delete(u), UNCHANGED ingestVars
         PROVE  TypeOK'
    <2>1. rows' \in [Usernames -> Row \cup {None}]
      BY <1>20 DEF Delete, TypeOK
    <2>2. posts' \in [RowIds -> [Messages -> Hashes \cup {None}]]
      BY <1>20 DEF Delete, TypeOK
    <2>3. [m \in Messages |-> <<>>] \in [Messages -> Seq(Points)] /\ <<>> \in Seq(Points)
      OBVIOUS
    <2>4. metrics' \in [RowIds -> [Messages -> Seq(Points)]] /\ counters' \in [RowIds -> Seq(Points)]
      BY <1>20, <2>3 DEF Delete, TypeOK
    <2> QED
      BY <1>20, <2>1, <2>2, <2>4 DEF Delete, ingestVars, TypeOK
  <1>21. CASE UNCHANGED vars
    BY <1>21 DEF vars, storeVars, TypeOK
  <1> QED
    BY <1>1, <1>2, <1>3, <1>4, <1>5, <1>6, <1>7, <1>8, <1>9, <1>10, <1>11, <1>12,
       <1>13, <1>14, <1>15, <1>16, <1>17, <1>18, <1>19, <1>20, <1>21
    DEF Next, StoreStep, Begin, Acquire, Advance
-----------------------------------------------------------------------------
(***************************************************************************)
(* A call that ends frees what it holds and leaves the others alone.       *)
(***************************************************************************)
LEMMA EndKeepsPc ==
    ASSUME TypeOK, PcInv, NEW s \in Sessions, NEW outcome, End(s, outcome),
           Forget(s) \/ UNCHANGED ingestVars
    PROVE  PcInv'
  <1>1. \A t \in Sessions \ {s} : /\ pc'[t] = pc[t] /\ user'[t] = user[t]
                                   /\ loaded'[t] = loaded[t] /\ object'[t] = object[t]
                                   /\ now'[t] = now[t] /\ page'[t] = page[t]
    BY DEF TypeOK, End, Forget, ingestVars
  <1>2. pc'[s] = "idle"
    BY DEF TypeOK, End
  <1> QED
    BY <1>1, <1>2 DEF PcInv, RowPcs, HoldPcs, PagePcs, WritePcs

(* A session that ends its transaction gives up its row lock and takes none. *)
LEMMA EndKeepsLock ==
    ASSUME TypeOK, PcInv, LockInv, NEW s \in Sessions, NEW outcome, End(s, outcome)
    PROVE  LockInv'
  <1>1. \A t \in Sessions \ {s} : pc'[t] = pc[t] /\ user'[t] = user[t]
    BY DEF TypeOK, End
  <1>2. pc'[s] = "idle"
    BY DEF TypeOK, End
  <1>3. \A u \in Usernames : lock'[u] = IF lock[u] = s THEN None ELSE lock[u]
    BY DEF End
  <1>4. \A u \in Usernames, t \in Sessions :
           lock'[u] = t => user'[t] = u /\ pc'[t] \in HoldPcs
    BY <1>1, <1>3, NoneIsNoName DEF LockInv
  <1>5. \A t \in Sessions : pc'[t] \in WritePcs => lock'[user'[t]] = t
    <2> TAKE t \in Sessions
    <2> HAVE pc'[t] \in WritePcs
    <2>1. t # s
      BY <1>2 DEF WritePcs
    <2>2. lock[user[t]] = t
      BY <1>1, <2>1 DEF LockInv
    <2>3. user[t] \in Usernames
      BY <1>1, <2>1 DEF PcInv, WritePcs
    <2> QED
      BY <1>1, <1>3, <2>1, <2>2, <2>3
  <1> QED
    BY <1>4, <1>5 DEF LockInv

(***************************************************************************)
(* Ids stay with one channel while no row changes and no session holds     *)
(* more than it held.                                                      *)
(***************************************************************************)
LEMMA SameRowsKeepIds ==
    ASSUME IdInv, HeldInv, rows' = rows,
           \A t \in Sessions, u \in Usernames :
              lock'[u] = t => lock[u] = t /\ loaded'[t] = loaded[t]
    PROVE  IdInv' /\ HeldInv'
  BY DEF IdInv, HeldInv, Holds

(* What End leaves of the other sessions, as the lemma above needs it. *)
LEMMA EndHolds ==
    ASSUME TypeOK, NEW s \in Sessions, NEW outcome, End(s, outcome)
    PROVE  \A t \in Sessions, u \in Usernames :
              lock'[u] = t => lock[u] = t /\ t # s /\ loaded'[t] = loaded[t]
  BY NoneIsNoName DEF End, TypeOK

(* A transaction that may write its row writes the row it loaded. *)
Writer(s) ==
    LET u == user[s] IN
    /\ u \in Usernames
    /\ Holds(s, u) \/ (rows[u] # None /\ lock[u] = None)
    /\ rows[u] # None => rows[u].id = loaded[s].id
    /\ Stored(s).id = loaded[s].id

(* A call that finds the row free and not stale may write it. *)
LEMMA FreeWriter ==
    ASSUME TypeOK, PcInv, HeldInv, NEW s \in Sessions, pc[s] \in RowPcs,
           Free(s), ~Stale(s)
    PROVE  Writer(s)
  <1>1. user[s] \in Usernames
    BY DEF PcInv, RowPcs
  <1>2. CASE lock[user[s]] = s
    BY <1>1, <1>2 DEF HeldInv, Holds, Writer, Stored
  <1>3. CASE lock[user[s]] # s
    BY <1>1, <1>3 DEF Free, Stale, Holds, Writer, Stored
  <1> QED
    BY <1>2, <1>3

(* A call in the write phase may write its row up to the commit. *)
LEMMA HoldingWriter ==
    ASSUME TypeOK, PcInv, LockInv, HeldInv, NEW s \in Sessions, pc[s] \in WritePcs
    PROVE  Writer(s)
  <1>1. user[s] \in Usernames /\ lock[user[s]] = s
    BY DEF PcInv, LockInv, WritePcs
  <1> QED
    BY <1>1 DEF HeldInv, Holds, Writer, Stored

(* The row a writer commits has an id that no other channel has. *)
LEMMA PublishKeepsIds ==
    ASSUME TypeOK, IdInv, HeldInv, NEW s \in Sessions, NEW outcome, End(s, outcome),
           NEW row \in Row, row.id = loaded[s].id, Writer(s),
           rows' = [rows EXCEPT ![user[s]] = row]
    PROVE  IdInv' /\ HeldInv'
  <1> DEFINE w == user[s]
  <1>1. w \in Usernames /\ rows'[w] = row /\ \A u \in Usernames \ {w} : rows'[u] = rows[u]
    BY DEF TypeOK, Writer
  <1>2. \A u \in Usernames : rows[u] # None /\ rows[u].id = loaded[s].id => u = w
    BY DEF Writer, IdInv, Holds
  <1>3. \A t \in Sessions, u \in Usernames :
           lock'[u] = t => lock[u] = t /\ t # s /\ loaded'[t] = loaded[t]
    BY EndHolds
  <1>4. \A t \in Sessions, u \in Usernames :
           lock'[u] = t => u # w /\ loaded[t].id # loaded[s].id
    BY <1>3, NoneIsNoName DEF Writer, IdInv, Holds
  <1> HIDE DEF w
  <1>5. HeldInv'
    BY <1>1, <1>3, <1>4 DEF HeldInv, Holds
  <1>6. \A u, v \in Usernames :
           rows'[u] # None /\ rows'[v] # None /\ rows'[u].id = rows'[v].id => u = v
    BY <1>1, <1>2 DEF IdInv
  <1>7. \A t \in Sessions, u, v \in Usernames :
           lock'[u] = t /\ rows'[v] # None /\ rows'[v].id = loaded'[t].id => u = v
    BY <1>1, <1>3, <1>4 DEF IdInv, Holds
  <1>8. \A t, x \in Sessions, u, v \in Usernames :
           lock'[u] = t /\ lock'[v] = x /\ loaded'[t].id = loaded'[x].id => u = v
    BY <1>3 DEF IdInv, Holds
  <1> QED
    BY <1>5, <1>6, <1>7, <1>8 DEF IdInv, Holds
-----------------------------------------------------------------------------
(***************************************************************************)
(* Each conjunct of IngestInv is preserved.                                *)
(***************************************************************************)
LEMMA PcStep == IInv /\ [Next]_vars => PcInv'
  <1> SUFFICES ASSUME IInv, [Next]_vars PROVE PcInv'
    OBVIOUS
  <1> USE DEF IInv, IngestInv
  <1>1. ASSUME NEW s \in Sessions, NEW outcome, End(s, outcome),
               Forget(s) \/ UNCHANGED ingestVars
        PROVE  PcInv'
    BY <1>1, EndKeepsPc
  <1>2. ASSUME NEW s \in Sessions, NEW u \in Usernames, UNCHANGED ingestVars,
               AddLookup(s, u) \/ MarkLookup(s, u)
        PROVE  PcInv'
    <2>1. CASE AddLookup(s, u)
      BY <1>2, <2>1 DEF AddLookup, Loaded, ingestVars, TypeOK, PcInv, RowPcs, HoldPcs, PagePcs, WritePcs
    <2>2. CASE MarkLookup(s, u)
      BY <1>2, <2>2 DEF MarkLookup, Loaded, ingestVars, TypeOK, PcInv, RowPcs, HoldPcs, PagePcs,
         WritePcs
    <2> QED
      BY <1>2, <2>1, <2>2
  <1>3. ASSUME NEW s \in Sessions, NEW u \in Usernames, UNCHANGED ingestVars,
               AddRejected(s, u) \/ MarkUnknown(s, u)
        PROVE  PcInv'
    BY <1>3 DEF AddRejected, MarkUnknown, ingestVars, PcInv
  <1>4. ASSUME NEW s \in Sessions, NEW u \in Usernames, IngestLoad(s, u)
        PROVE  PcInv'
    BY <1>4, MaxClockIsNat
    DEF IngestLoad, Loaded, Tick, Times, TypeOK, PcInv, RowPcs, HoldPcs, PagePcs, WritePcs
  <1>5. ASSUME NEW s \in Sessions, NEW u \in Usernames, IngestUnknown(s, u)
        PROVE  PcInv'
    BY <1>5 DEF IngestUnknown, Loaded, ingestVars, TypeOK, PcInv, RowPcs, HoldPcs, PagePcs, WritePcs
  <1>6. ASSUME NEW s \in Sessions, IngestInsert(s)
        PROVE  PcInv'
    <2>1. PICK i \in RowIds : /\ loaded' = [loaded EXCEPT ![s] = Created(i)]
                               /\ object' = [object EXCEPT ![s] = Created(i)]
      BY <1>6 DEF IngestInsert, FreshIds
    <2>2. now' = [now EXCEPT ![s] = clock + 1] /\ clock + 1 \in Times
      BY <1>6, MaxClockIsNat DEF IngestInsert, Tick, Times, TypeOK
    <2> QED
      BY <1>6, <2>1, <2>2, CreatedRow
      DEF IngestInsert, TypeOK, PcInv, RowPcs, HoldPcs, PagePcs, WritePcs
  <1>7. ASSUME NEW s \in Sessions, FetchFails(s)
        PROVE  PcInv'
    <2>1. loaded[s] \in Row /\ now[s] \in Times
      BY <1>7 DEF FetchFails, PcInv, RowPcs, HoldPcs, IngestPcs, StorePcs
    <2>2. PICK st \in FailedStatuses : object' = [object EXCEPT ![s] = Failed(loaded[s], st, now[s])]
      BY <1>7 DEF FetchFails, Edit
    <2>3. Failed(loaded[s], st, now[s]) \in Row /\ Failed(loaded[s], st, now[s]).id = loaded[s].id
      BY <2>1, EditedRow
    <2> QED
      BY <1>7, <2>1, <2>2, <2>3
      DEF FetchFails, Goto, ingestVars, TypeOK, PcInv, RowPcs, HoldPcs, PagePcs, WritePcs
  <1>8. ASSUME NEW s \in Sessions, FetchReturns(s)
        PROVE  PcInv'
    <2>1. loaded[s] \in Row /\ now[s] \in Times /\ user[s] \in Usernames
      BY <1>8 DEF FetchReturns, PcInv, RowPcs, HoldPcs, IngestPcs, StorePcs
    <2>2. PICK row \in Row : row.id = loaded[s].id /\ object' = [object EXCEPT ![s] = row]
      <3>1. \/ object' = [object EXCEPT ![s] = Failed(loaded[s], "private", now[s])]
            \/ object' = [object EXCEPT ![s] = Succeeded(loaded[s], now[s])]
        BY <1>8 DEF FetchReturns, Edit
      <3> QED
        BY <2>1, <3>1, EditedRow DEF FailedStatuses
    <2>3. \/ pc' = [pc EXCEPT ![s] = "failing"] /\ page' = page
          \/ pc' = [pc EXCEPT ![s] = "flushing"] /\ \E p \in Pages : page' = [page EXCEPT ![s] = p]
      BY <1>8 DEF FetchReturns, Goto
    <2>4. user' = user /\ loaded' = loaded /\ now' = now
      BY <1>8 DEF FetchReturns
    <2>5. ASSUME NEW t \in Sessions \ {s}
          PROVE  pc'[t] = pc[t] /\ object'[t] = object[t] /\ page'[t] = page[t]
      BY <2>2, <2>3 DEF TypeOK
    <2>6. /\ pc'[s] \in {"failing", "flushing"} /\ object'[s] = row
          /\ pc'[s] = "flushing" => page'[s] \in Pages
      BY <2>2, <2>3 DEF TypeOK
    <2> QED
      BY <2>1, <2>2, <2>4, <2>5, <2>6 DEF PcInv, PagePcs, WritePcs
  <1>9. ASSUME NEW s \in Sessions, \/ Flush(s) \/ CountPosts(s) \/ UpsertPosts(s)
                                    \/ WriteMetrics(s) \/ WriteCounters(s)
        PROVE  PcInv'
    <2>1. /\ pc[s] \in PagePcs
          /\ \E step \in WritePcs : pc' = [pc EXCEPT ![s] = step]
          /\ UNCHANGED <<user, loaded, object, now, page>>
      BY <1>9 DEF Flush, CountPosts, UpsertPosts, WriteMetrics, WriteCounters, Goto, PagePcs,
         WritePcs, ingestVars
    <2>2. pc[s] \in RowPcs /\ pc[s] \in HoldPcs /\ pc[s] # "idle"
      BY <2>1 DEF PagePcs, WritePcs, RowPcs, HoldPcs, IngestPcs, StorePcs
    <2> QED
      BY <2>1, <2>2 DEF TypeOK, PcInv
  <1>10. ASSUME NEW u \in Usernames, Delete(u), UNCHANGED ingestVars
         PROVE  PcInv'
    BY <1>10 DEF Delete, ingestVars, PcInv
  <1>11. CASE UNCHANGED vars
    BY <1>11 DEF vars, storeVars, PcInv
  <1> QED
    BY <1>1, <1>2, <1>3, <1>4, <1>5, <1>6, <1>7, <1>8, <1>9, <1>10, <1>11
    DEF Next, StoreStep, Begin, Acquire, Advance, AddCommit, InsertRaises, MarkCommit,
        RecordFailure, FlushRaises, Commit, Raise

(* Row locks belong to calls on that row, through every step. *)
LEMMA LockStep == IInv /\ [Next]_vars => LockInv'
  <1> SUFFICES ASSUME IInv, [Next]_vars PROVE LockInv'
    OBVIOUS
  <1> USE DEF IInv, IngestInv
  <1>1. ASSUME NEW s \in Sessions, NEW outcome, End(s, outcome)
        PROVE  LockInv'
    BY <1>1, EndKeepsLock
  <1>2. ASSUME NEW s \in Sessions, NEW u \in Usernames, NEW row,
               NEW step \in {"adding", "marking", "inserting", "fetching"},
               pc[s] = "idle", Loaded(s, u, row, step)
        PROVE  LockInv'
    BY <1>2 DEF Loaded, TypeOK, LockInv, HoldPcs, WritePcs
  <1>3. CASE UNCHANGED <<lock, pc, user>>
    BY <1>3 DEF LockInv
  <1>4. ASSUME NEW s \in Sessions, UNCHANGED <<lock, user>>, pc[s] \in HoldPcs,
               NEW step \in HoldPcs, pc' = [pc EXCEPT ![s] = step],
               step \in WritePcs => pc[s] \in WritePcs
        PROVE  LockInv'
    BY <1>4 DEF TypeOK, LockInv
  <1>5. ASSUME NEW s \in Sessions, IngestInsert(s)
        PROVE  LockInv'
    BY <1>5, NoneIsNoName DEF IngestInsert, TypeOK, PcInv, LockInv, HoldPcs, WritePcs
  <1>6. ASSUME NEW s \in Sessions, Flush(s)
        PROVE  LockInv'
    BY <1>6, NoneIsNoName DEF Flush, Free, Goto, TypeOK, PcInv, LockInv, HoldPcs, WritePcs
  <1>7. ASSUME NEW s \in Sessions, FetchFails(s) \/ FetchReturns(s)
        PROVE  LockInv'
    BY <1>4, <1>7 DEF FetchFails, FetchReturns, Goto, HoldPcs, WritePcs
  <1>8. ASSUME NEW s \in Sessions,
               CountPosts(s) \/ UpsertPosts(s) \/ WriteMetrics(s) \/ WriteCounters(s)
        PROVE  LockInv'
    BY <1>4, <1>8 DEF CountPosts, UpsertPosts, WriteMetrics, WriteCounters, Goto, HoldPcs, WritePcs
  <1>9. ASSUME NEW u \in Usernames, Delete(u)
        PROVE  LockInv'
    BY <1>3, <1>9 DEF Delete
  <1>10. ASSUME NEW s \in Sessions, StoreStep(s)
         PROVE  LockInv'
    BY <1>1, <1>2, <1>3, <1>10
    DEF StoreStep, AddLookup, AddRejected, MarkLookup, MarkUnknown, AddCommit, InsertRaises, MarkCommit
  <1>11. ASSUME NEW s \in Sessions, Begin(s)
         PROVE  LockInv'
    BY <1>2, <1>11 DEF Begin, IngestLoad, IngestUnknown
  <1>12. CASE UNCHANGED vars
    BY <1>3, <1>12 DEF vars, storeVars
  <1> QED
    BY <1>1, <1>5, <1>6, <1>7, <1>8, <1>9, <1>10, <1>11, <1>12
    DEF Next, Acquire, Advance, RecordFailure, FlushRaises, Commit, Raise

(* Ids: a session that begins to hold a row, and the five ways rows change. *)
LEMMA IdStep == IInv /\ [Next]_vars => IdInv' /\ HeldInv'
  <1> SUFFICES ASSUME IInv, [Next]_vars PROVE IdInv' /\ HeldInv'
    OBVIOUS
  <1> USE DEF IInv, IngestInv
  <1>1. ASSUME NEW s \in Sessions, NEW outcome, End(s, outcome), UNCHANGED tables
        PROVE  IdInv' /\ HeldInv'
    BY <1>1, EndHolds, SameRowsKeepIds DEF tables
  <1>2. ASSUME NEW s \in Sessions, NEW u \in Usernames, NEW row, NEW step,
               pc[s] = "idle", Loaded(s, u, row, step), UNCHANGED tables
        PROVE  IdInv' /\ HeldInv'
    <2>1. \A v \in Usernames : lock[v] # s
      BY <1>2 DEF LockInv, HoldPcs, WritePcs
    <2> QED
      BY <1>2, <2>1, SameRowsKeepIds DEF tables, Loaded, TypeOK
  <1>3. CASE UNCHANGED <<rows, lock, loaded>>
    BY <1>3, SameRowsKeepIds
  <1>4. ASSUME NEW s \in Sessions, AddCommit(s)
        PROVE  IdInv' /\ HeldInv'
    <2>1. PICK i \in FreshIds : rows' = [rows EXCEPT ![user[s]] = Created(i)]
      BY <1>4 DEF AddCommit
    <2>2. Created(i) \in Row /\ Created(i).id = i /\ user[s] \in Usernames
      BY <1>4, CreatedRow DEF FreshIds, AddCommit, PcInv
    <2>3. \A t \in Sessions, u \in Usernames :
             lock'[u] = t => /\ lock[u] = t /\ loaded'[t] = loaded[t]
                             /\ u # user[s] /\ loaded[t].id # i
      <3>1. \A t \in Sessions, u \in Usernames :
               lock'[u] = t => lock[u] = t /\ loaded'[t] = loaded[t]
        BY <1>4, EndHolds DEF AddCommit
      <3>2. \A t \in Sessions, u \in Usernames : lock[u] = t => u # user[s]
        BY <1>4, NoneIsNoName DEF AddCommit
      <3>3. \A t \in Sessions, u \in Usernames : lock[u] = t => loaded[t] \in Row
        BY DEF LockInv, PcInv, HoldPcs, RowPcs, WritePcs, IngestPcs, StorePcs
      <3> QED
        BY <3>1, <3>2, <3>3, NoneIsNoRow DEF FreshIds
    <2>4. /\ rows'[user[s]] # None /\ rows'[user[s]].id = i
          /\ \A u \in Usernames \ {user[s]} : rows'[u] = rows[u] /\ (rows[u] # None => rows[u].id # i)
      BY <2>1, <2>2, NoneIsNoRow DEF TypeOK, FreshIds
    <2> QED
      BY <2>2, <2>3, <2>4 DEF IdInv, HeldInv, Holds
  <1>5. ASSUME NEW s \in Sessions, MarkCommit(s)
        PROVE  IdInv' /\ HeldInv'
    <2>1. CASE UNCHANGED rows
      BY <1>5, <2>1, EndHolds, SameRowsKeepIds DEF MarkCommit
    <2>2. CASE ~UNCHANGED rows
      <3>1. /\ Free(s) /\ ~Stale(s) /\ End(s, "ok") /\ pc[s] \in RowPcs
            /\ rows' = [rows EXCEPT ![user[s]] = Written(Stored(s), loaded[s], Pending(loaded[s]))]
        BY <1>5, <2>2 DEF MarkCommit, RowPcs, StorePcs
      <3>2. Writer(s)
        BY <3>1, FreeWriter
      <3>3. /\ Written(Stored(s), loaded[s], Pending(loaded[s])) \in Row
            /\ Written(Stored(s), loaded[s], Pending(loaded[s])).id = loaded[s].id
        BY <3>1, <3>2, PublishedRow DEF Writer
      <3> QED
        BY <3>1, <3>2, <3>3, PublishKeepsIds
    <2> QED
      BY <2>1, <2>2
  <1>6. ASSUME NEW s \in Sessions, NEW outcome, End(s, outcome), Publish(s),
               pc[s] \in RowPcs, Writer(s)
        PROVE  IdInv' /\ HeldInv'
    <2>1. /\ Written(Stored(s), loaded[s], object[s]) \in Row
          /\ Written(Stored(s), loaded[s], object[s]).id = loaded[s].id
      BY <1>6, PublishedRow DEF Writer
    <2> QED
      BY <1>6, <2>1, PublishKeepsIds DEF Publish
  <1>7. ASSUME NEW s \in Sessions, RecordFailure(s)
        PROVE  IdInv' /\ HeldInv'
    BY <1>6, <1>7, FreeWriter DEF RecordFailure, RowPcs, IngestPcs, StorePcs
  <1>8. ASSUME NEW s \in Sessions, Commit(s)
        PROVE  IdInv' /\ HeldInv'
    BY <1>6, <1>8, HoldingWriter DEF Commit, RowPcs, WritePcs, IngestPcs, StorePcs
  <1>9. ASSUME NEW s \in Sessions, IngestInsert(s)
        PROVE  IdInv' /\ HeldInv'
    <2>1. PICK i \in FreshIds : loaded' = [loaded EXCEPT ![s] = Created(i)]
      BY <1>9 DEF IngestInsert
    <2>2. Created(i).id = i /\ user[s] \in Usernames
      BY <1>9, CreatedRow DEF FreshIds, IngestInsert, PcInv
    <2>3. \A t \in Sessions, u \in Usernames : lock[u] = t => t # s /\ loaded[t] \in Row
      BY <1>9 DEF IngestInsert, LockInv, PcInv, HoldPcs, RowPcs, WritePcs, IngestPcs, StorePcs
    <2>4. \A t \in Sessions, u \in Usernames :
             lock[u] = t => loaded'[t] = loaded[t] /\ loaded[t].id # i
      BY <2>1, <2>3, NoneIsNoRow DEF FreshIds, TypeOK
    <2>5. \A u \in Usernames : lock'[u] = IF u = user[s] THEN s ELSE lock[u]
      BY <1>9 DEF IngestInsert, TypeOK
    <2>6. loaded'[s].id = i /\ rows' = rows /\ rows[user[s]] = None /\ lock[user[s]] = None
      BY <1>9, <2>1, <2>2 DEF IngestInsert, tables, TypeOK
    <2>7. \A u \in Usernames : rows[u] # None => rows[u].id # i
      BY DEF FreshIds
    <2> QED
      BY <2>2, <2>3, <2>4, <2>5, <2>6, <2>7, NoneIsNoName DEF IdInv, HeldInv, Holds
  <1>10. ASSUME NEW s \in Sessions, Flush(s)
         PROVE  IdInv' /\ HeldInv'
    <2>1. Writer(s)
      BY <1>10, FreeWriter DEF Flush, RowPcs, IngestPcs, StorePcs
    <2>2. \A u \in Usernames : lock'[u] = IF u = user[s] THEN s ELSE lock[u]
      BY <1>10 DEF Flush, TypeOK
    <2>3. rows' = rows /\ loaded' = loaded
      BY <1>10 DEF Flush, tables
    <2>4. CASE lock[user[s]] = s
      BY <2>2, <2>3, <2>4, SameRowsKeepIds
    <2>5. CASE lock[user[s]] # s
      <3>1. /\ rows[user[s]] # None /\ rows[user[s]].id = loaded[s].id /\ user[s] \in Usernames
            /\ \A u \in Usernames : lock[u] = s => u = user[s]
        BY <2>1, <2>5 DEF Writer, Holds, LockInv
      <3> QED
        BY <2>2, <2>3, <2>5, <3>1 DEF IdInv, HeldInv, Holds
    <2> QED
      BY <2>4, <2>5
  <1>11. ASSUME NEW u \in Usernames, Delete(u)
         PROVE  IdInv' /\ HeldInv'
    <2>1. \A v \in Usernames : rows'[v] = rows[v] \/ rows'[v] = None
      BY <1>11 DEF Delete, TypeOK
    <2>2. lock' = lock /\ loaded' = loaded
      BY <1>11 DEF Delete
    <2> QED
      BY <2>1, <2>2 DEF IdInv, HeldInv, Holds
  <1>12. ASSUME NEW s \in Sessions, StoreStep(s)
         PROVE  IdInv' /\ HeldInv'
    BY <1>1, <1>2, <1>3, <1>4, <1>5, <1>12
    DEF StoreStep, AddLookup, AddRejected, MarkLookup, MarkUnknown, InsertRaises, tables
  <1>13. ASSUME NEW s \in Sessions, Begin(s)
         PROVE  IdInv' /\ HeldInv'
    BY <1>2, <1>13 DEF Begin, IngestLoad, IngestUnknown
  <1>14. ASSUME NEW s \in Sessions,
                \/ FetchFails(s) \/ FetchReturns(s)
                \/ CountPosts(s) \/ UpsertPosts(s) \/ WriteMetrics(s) \/ WriteCounters(s)
         PROVE  IdInv' /\ HeldInv'
    BY <1>3, <1>14 DEF FetchFails, FetchReturns, CountPosts, UpsertPosts, WriteMetrics,
       WriteCounters, tables
  <1>15. CASE UNCHANGED vars
    BY <1>3, <1>15 DEF vars, storeVars
  <1> QED
    BY <1>1, <1>7, <1>8, <1>9, <1>10, <1>11, <1>12, <1>13, <1>14, <1>15
    DEF Next, Acquire, Advance, FlushRaises, Raise

(***************************************************************************)
(* A session that does not act, and whose channel's history is not         *)
(* touched, keeps a draft that fits; and an empty draft fits anything.     *)
(***************************************************************************)
LEMMA DraftFrame ==
    ASSUME DraftInv, NEW t \in Sessions,
           UNCHANGED <<pc[t], draft[t], page[t], loaded[t]>>,
           pc[t] \in WritePcs => UNCHANGED <<metrics[loaded[t].id], counters[loaded[t].id]>>
    PROVE  DraftOf(t)'
  <1>1. CASE pc[t] \in WritePcs
    BY <1>1 DEF DraftInv, DraftOf, Fits, Unchanged
  <1>2. CASE pc[t] \notin WritePcs
    BY <1>2 DEF DraftInv, DraftOf, WritePcs
  <1> QED
    BY <1>1, <1>2

(* A call that has written nothing has nothing that could fail to fit. *)
LEMMA NoDraftFits ==
    ASSUME NEW s \in Sessions, draft'[s] = NoDraft,
           pc'[s] # "measuring"
    PROVE  DraftOf(s)'
  BY DEF DraftOf, NoDraft, Fits

(* The history of a channel that a session writes changes with its commit. *)
LEMMA CommitSpares ==
    ASSUME IInv, NEW s \in Sessions, Commit(s)
    PROVE  \A i \in RowIds \ {loaded[s].id} :
              UNCHANGED <<posts[i], metrics[i], counters[i]>>
  BY DEF IInv, TypeOK, Commit, Id

(* Two sessions in the write phase write different channels. *)
LEMMA WritersDiffer ==
    ASSUME IInv, NEW s \in Sessions, NEW t \in Sessions, s # t,
           pc[s] \in WritePcs, pc[t] \in WritePcs
    PROVE  /\ loaded[s].id \in RowIds /\ loaded[t].id \in RowIds
           /\ loaded[s].id # loaded[t].id
  <1>1. /\ user[s] \in Usernames /\ Holds(s, user[s]) /\ loaded[s] \in Row
        /\ user[t] \in Usernames /\ Holds(t, user[t]) /\ loaded[t] \in Row
    BY DEF IInv, IngestInv, PcInv, LockInv, Holds, RowPcs, IngestPcs, StorePcs, WritePcs
  <1> QED
    BY <1>1 DEF IInv, IngestInv, IdInv, Holds, Row

(* What a transaction wrote fits the committed tables until its own commit. *)
LEMMA DraftStep == IInv /\ [Next]_vars => DraftInv'
  <1> SUFFICES ASSUME IInv, [Next]_vars PROVE DraftInv'
    OBVIOUS
  <1> USE DEF IInv, IngestInv
  <1>1. ASSUME NEW s \in Sessions, NEW outcome, End(s, outcome), UNCHANGED <<metrics, counters>>,
               Forget(s) \/ (UNCHANGED ingestVars /\ pc[s] \notin WritePcs)
        PROVE  DraftInv'
    <2>1. ASSUME NEW t \in Sessions \ {s} PROVE DraftOf(t)'
      BY <1>1, DraftFrame DEF End, Forget, ingestVars, TypeOK
    <2>2. pc'[s] = "idle" /\ draft'[s] = NoDraft
      BY <1>1 DEF End, Forget, ingestVars, TypeOK, DraftInv, DraftOf, WritePcs
    <2> QED
      BY <2>1, <2>2, NoDraftFits DEF DraftInv
  <1>2. ASSUME NEW s \in Sessions, pc[s] \notin WritePcs, UNCHANGED <<metrics, counters, draft>>,
               NEW step \in (StorePcs \cup IngestPcs) \ (WritePcs \ {"counting"}),
               pc' = [pc EXCEPT ![s] = step],
               \A t \in Sessions \ {s} : UNCHANGED <<page[t], loaded[t]>>
        PROVE  DraftInv'
    <2>1. ASSUME NEW t \in Sessions \ {s} PROVE DraftOf(t)'
      BY <1>2, DraftFrame DEF TypeOK
    <2>2. pc'[s] = step /\ draft'[s] = NoDraft /\ step # "measuring"
      BY <1>2 DEF TypeOK, DraftInv, DraftOf, WritePcs
    <2> QED
      BY <2>1, <2>2, NoDraftFits DEF DraftInv
  <1>3. CASE UNCHANGED <<pc, draft, page, loaded, metrics, counters>>
    BY <1>3, DraftFrame DEF DraftInv
  <1>4. ASSUME NEW s \in Sessions, CountPosts(s)
        PROVE  DraftInv'
    <2>1. ASSUME NEW t \in Sessions \ {s} PROVE DraftOf(t)'
      BY <1>4, DraftFrame DEF CountPosts, Goto, tables, TypeOK
    <2>2. pc'[s] = "upserting" /\ draft'[s] = NoDraft
      BY <1>4 DEF CountPosts, Goto, TypeOK, DraftInv, DraftOf
    <2> QED
      BY <2>1, <2>2, NoDraftFits DEF DraftInv
  <1>5. ASSUME NEW s \in Sessions, UpsertPosts(s)
        PROVE  DraftInv'
    <2> DEFINE parsed == page[s].posts
               hashes == [m \in Messages |-> IF m \in DOMAIN parsed THEN parsed[m].hash ELSE None]
    <2>1. ASSUME NEW t \in Sessions \ {s} PROVE DraftOf(t)'
      BY <1>5, DraftFrame DEF UpsertPosts, Goto, tables, TypeOK
    <2>2. page[s] \in Pages
      BY <1>5 DEF UpsertPosts, PcInv, PagePcs, WritePcs
    <2>3. draft[s] = NoDraft /\ draft' = [draft EXCEPT ![s] = [draft[s] EXCEPT !.posts = hashes]]
      BY <1>5 DEF UpsertPosts, DraftInv, DraftOf
    <2>4. pc'[s] = "measuring" /\ page' = page
      BY <1>5 DEF UpsertPosts, Goto, TypeOK
    <2>5. \A m \in DOMAIN parsed : m \in Messages /\ hashes[m] # None
      BY <2>2, PageType, NoneIsNoData
    <2> HIDE DEF hashes
    <2>6. /\ draft'[s].posts = hashes /\ draft'[s].counters = None
          /\ \A m \in Messages : draft'[s].metrics[m] = None
      BY <2>3 DEF TypeOK, NoDraft
    <2>7. DraftOf(s)'
      BY <2>4, <2>5, <2>6 DEF DraftOf, Fits
    <2> QED
      BY <2>1, <2>7 DEF DraftInv
  <1>6. ASSUME NEW s \in Sessions, WriteMetrics(s)
        PROVE  DraftInv'
    <2> DEFINE parsed == page[s].posts
               taken == [m \in Messages |->
                            IF m \in DOMAIN parsed
                            THEN Snapshot(metrics[Id(s)][m], parsed[m].metric, now[s])
                            ELSE None]
    <2>1. ASSUME NEW t \in Sessions \ {s} PROVE DraftOf(t)'
      BY <1>6, DraftFrame DEF WriteMetrics, Goto, tables, TypeOK
    <2>2. page[s] \in Pages /\ now[s] \in Times /\ Id(s) \in RowIds
      BY <1>6 DEF WriteMetrics, PcInv, PagePcs, HoldPcs, RowPcs, WritePcs, IngestPcs, StorePcs, Id, Row
    <2>3. /\ draft[s].counters = None
          /\ \A m \in DOMAIN parsed : draft[s].posts[m] # None
          /\ draft' = [draft EXCEPT ![s] = [draft[s] EXCEPT !.metrics = taken]]
      BY <1>6 DEF WriteMetrics, DraftInv, DraftOf
    <2>4. pc'[s] = "sizing" /\ metrics' = metrics /\ counters' = counters /\ loaded' = loaded
      BY <1>6 DEF WriteMetrics, Goto, tables, TypeOK
    <2>5. \A m \in Messages : /\ Fits(metrics[Id(s)][m], taken[m])
                              /\ taken[m] # None => m \in DOMAIN parsed
      <3> TAKE m \in Messages
      <3>1. CASE m \notin DOMAIN parsed
        BY <3>1 DEF Fits
      <3>2. CASE m \in DOMAIN parsed
        <4>1. parsed[m].metric \in Values \cup {None} /\ metrics[Id(s)][m] \in Seq(Points)
          BY <2>2, <3>2, PageType DEF TypeOK
        <4> QED
          BY <2>2, <3>2, <4>1, SnapshotFits
      <3> QED
        BY <3>1, <3>2
    <2> HIDE DEF taken
    <2>6. /\ draft'[s].posts = draft[s].posts /\ draft'[s].counters = None
          /\ draft'[s].metrics = taken
      BY <2>3 DEF TypeOK, Draft
    <2>7. DraftOf(s)'
      BY <2>3, <2>4, <2>5, <2>6 DEF DraftOf, Fits, Unchanged, Id
    <2> QED
      BY <2>1, <2>7 DEF DraftInv
  <1>7. ASSUME NEW s \in Sessions, WriteCounters(s)
        PROVE  DraftInv'
    <2> DEFINE point == Snapshot(counters[Id(s)], page[s].counters, now[s])
    <2>1. ASSUME NEW t \in Sessions \ {s} PROVE DraftOf(t)'
      BY <1>7, DraftFrame DEF WriteCounters, Goto, tables, TypeOK
    <2>2. page[s] \in Pages /\ now[s] \in Times /\ Id(s) \in RowIds
      BY <1>7 DEF WriteCounters, PcInv, PagePcs, HoldPcs, RowPcs, WritePcs, IngestPcs, StorePcs, Id, Row
    <2>3. draft' = [draft EXCEPT ![s] = [draft[s] EXCEPT !.counters = point]]
      BY <1>7 DEF WriteCounters
    <2>4. pc'[s] = "committing" /\ metrics' = metrics /\ counters' = counters /\ loaded' = loaded
      BY <1>7 DEF WriteCounters, Goto, tables, TypeOK
    <2>5. Fits(counters[Id(s)], point)
      BY <2>2, PageType, SnapshotFits DEF TypeOK
    <2> HIDE DEF point
    <2>6. /\ draft'[s].posts = draft[s].posts /\ draft'[s].metrics = draft[s].metrics
          /\ draft'[s].counters = point
      BY <2>3 DEF TypeOK, Draft
    <2>7. pc[s] \in WritePcs
      BY <1>7 DEF WriteCounters, WritePcs
    <2>8. DraftOf(s)'
      BY <2>4, <2>5, <2>6, <2>7 DEF DraftInv, DraftOf, Fits, Unchanged, Id
    <2> QED
      BY <2>1, <2>8 DEF DraftInv
  <1>8. ASSUME NEW s \in Sessions, Commit(s)
        PROVE  DraftInv'
    <2>1. pc[s] \in WritePcs
      BY <1>8 DEF Commit, WritePcs
    <2>2. ASSUME NEW t \in Sessions \ {s} PROVE DraftOf(t)'
      <3>1. UNCHANGED <<pc[t], draft[t], page[t], loaded[t]>>
        BY <1>8 DEF Commit, End, Forget, TypeOK
      <3>2. pc[t] \in WritePcs => UNCHANGED <<metrics[loaded[t].id], counters[loaded[t].id]>>
        BY <1>8, <2>1, <3>1, WritersDiffer, CommitSpares
      <3> QED
        BY <3>1, <3>2, DraftFrame
    <2>3. pc'[s] = "idle" /\ draft'[s] = NoDraft
      BY <1>8 DEF Commit, End, Forget, TypeOK
    <2> QED
      BY <2>2, <2>3, NoDraftFits DEF DraftInv
  <1>9. ASSUME NEW u \in Usernames, Delete(u), UNCHANGED ingestVars
        PROVE  DraftInv'
    <2>1. ASSUME NEW t \in Sessions PROVE DraftOf(t)'
      <3>1. UNCHANGED <<pc[t], draft[t], page[t], loaded[t]>>
        BY <1>9 DEF Delete, ingestVars
      <3>2. ASSUME pc[t] \in WritePcs
            PROVE  UNCHANGED <<metrics[loaded[t].id], counters[loaded[t].id]>>
        <4>1. /\ user[t] \in Usernames /\ Holds(t, user[t]) /\ loaded[t] \in Row
          BY <3>2 DEF PcInv, LockInv, Holds, RowPcs, IngestPcs, StorePcs, WritePcs
        <4>2. loaded[t].id # rows[u].id /\ loaded[t].id \in RowIds
          BY <1>9, <4>1, NoneIsNoName DEF Delete, IdInv, Holds, Row
        <4> QED
          BY <1>9, <4>2 DEF Delete, TypeOK
      <3> QED
        BY <3>1, <3>2, DraftFrame
    <2> QED
      BY <2>1 DEF DraftInv
  <1>10. ASSUME NEW s \in Sessions, Flush(s) \/ FetchFails(s) \/ FetchReturns(s)
         PROVE  DraftInv'
    <2>1. /\ pc[s] \notin WritePcs /\ UNCHANGED <<metrics, counters, draft, loaded>>
          /\ \E step \in {"counting", "failing", "flushing"} : pc' = [pc EXCEPT ![s] = step]
          /\ \A t \in Sessions \ {s} : page'[t] = page[t]
      BY <1>10 DEF Flush, FetchFails, FetchReturns, Goto, tables, ingestVars, WritePcs, TypeOK
    <2> QED
      BY <1>2, <2>1 DEF IngestPcs, WritePcs
  <1>11. ASSUME NEW s \in Sessions, IngestInsert(s)
         PROVE  DraftInv'
    BY <1>2, <1>11 DEF IngestInsert, tables, IngestPcs, WritePcs, TypeOK
  <1>12. ASSUME NEW s \in Sessions, NEW u \in Usernames, NEW row,
                NEW step \in {"adding", "marking", "inserting", "fetching"},
                pc[s] = "idle", Loaded(s, u, row, step), UNCHANGED <<metrics, counters, draft, page>>
         PROVE  DraftInv'
    BY <1>2, <1>12 DEF Loaded, StorePcs, IngestPcs, WritePcs, TypeOK
  <1>13. ASSUME NEW s \in Sessions, Begin(s)
         PROVE  DraftInv'
    BY <1>12, <1>13 DEF Begin, IngestLoad, IngestUnknown, tables, ingestVars
  <1>14. ASSUME NEW s \in Sessions, StoreStep(s)
         PROVE  DraftInv'
    <2>1. ASSUME NEW u \in Usernames, AddLookup(s, u) \/ MarkLookup(s, u)
          PROVE  DraftInv'
      BY <1>12, <1>14, <2>1 DEF StoreStep, AddLookup, MarkLookup, tables, ingestVars
    <2>2. ASSUME NEW u \in Usernames, AddRejected(s, u) \/ MarkUnknown(s, u)
          PROVE  DraftInv'
      BY <1>3, <1>14, <2>2 DEF StoreStep, AddRejected, MarkUnknown, tables, ingestVars
    <2>3. CASE AddCommit(s) \/ InsertRaises(s) \/ MarkCommit(s)
      <3>1. pc[s] \notin WritePcs /\ UNCHANGED <<metrics, counters>> /\ \E outcome : End(s, outcome)
        BY <2>3 DEF AddCommit, InsertRaises, MarkCommit, tables, WritePcs
      <3> QED
        BY <1>1, <1>14, <3>1 DEF StoreStep
    <2> QED
      BY <1>14, <2>1, <2>2, <2>3 DEF StoreStep
  <1>15. ASSUME NEW s \in Sessions, RecordFailure(s) \/ FlushRaises(s) \/ Raise(s)
         PROVE  DraftInv'
    BY <1>1, <1>15 DEF RecordFailure, FlushRaises, Raise, tables
  <1>16. CASE UNCHANGED vars
    BY <1>3, <1>16 DEF vars, storeVars
  <1> QED
    BY <1>4, <1>5, <1>6, <1>7, <1>8, <1>9, <1>10, <1>11, <1>13, <1>14, <1>15, <1>16
    DEF Next, Acquire, Advance

-----------------------------------------------------------------------------
(***************************************************************************)
(* The histories: what the commit and the delete make of them.             *)
(***************************************************************************)
LEMMA CommitPosts ==
    ASSUME IInv, NEW s \in Sessions, Commit(s)
    PROVE  LET i == loaded[s].id
               new == draft[s]
           IN  /\ i \in RowIds /\ pc[s] \in WritePcs /\ Writer(s)
               /\ counters'[i] = Extended(counters[i], new.counters)
               /\ \A m \in Messages :
                     /\ posts'[i][m] = IF new.posts[m] = None THEN posts[i][m] ELSE new.posts[m]
                     /\ metrics'[i][m] = Extended(metrics[i][m], new.metrics[m])
  <1>1. pc[s] \in WritePcs /\ Writer(s)
    BY HoldingWriter DEF Commit, WritePcs, IInv, IngestInv
  <1>2. loaded[s] \in Row
    BY <1>1 DEF IInv, IngestInv, PcInv, RowPcs, WritePcs, IngestPcs, StorePcs
  <1> QED
    BY <1>1, <1>2 DEF Commit, Id, IInv, TypeOK, Row

(* delete_channel cascades to all of its channel and to nothing else. *)
LEMMA DeleteErases ==
    ASSUME IInv, NEW u \in Usernames, Delete(u)
    PROVE  /\ rows[u].id \in RowIds
           /\ counters'[rows[u].id] = <<>>
           /\ \A m \in Messages : posts'[rows[u].id][m] = None /\ metrics'[rows[u].id][m] = <<>>
           /\ \A i \in RowIds \ {rows[u].id} : UNCHANGED <<posts[i], metrics[i], counters[i]>>
  BY DEF IInv, TypeOK, Delete, Row

(* Every other step leaves the history tables alone. *)
LEMMA HistoryFrame ==
    ASSUME IInv, [Next]_vars
    PROVE  \/ \E s \in Sessions : Commit(s)
           \/ \E u \in Usernames : Delete(u)
           \/ UNCHANGED <<posts, metrics, counters>>
  BY ZenonT(40)
     DEF Next, StoreStep, Begin, Acquire, Advance, AddLookup, AddRejected, MarkLookup, MarkUnknown,
         AddCommit, InsertRaises, MarkCommit, IngestLoad, IngestUnknown, IngestInsert, RecordFailure,
         FlushRaises, Flush, FetchFails, FetchReturns, CountPosts, UpsertPosts, WriteMetrics,
         WriteCounters, Raise, tables, vars, storeVars

(* No step makes two consecutive snapshots equal. *)
LEMMA RepeatStep == IInv /\ [Next]_vars => NoRepeatedSnapshot'
  <1> SUFFICES ASSUME IInv, [Next]_vars PROVE NoRepeatedSnapshot'
    OBVIOUS
  <1>1. ASSUME NEW s \in Sessions, Commit(s)
        PROVE  NoRepeatedSnapshot'
    <2> DEFINE i == loaded[s].id
    <2>1. i \in RowIds /\ pc[s] \in WritePcs
      BY <1>1, CommitPosts
    <2>2. RepeatFree(counters'[i])
      <3>1. /\ counters[i] \in Seq(Points) /\ draft[s].counters \in Points \cup {None}
            /\ RepeatFree(counters[i]) /\ Fits(counters[i], draft[s].counters)
        BY <2>1 DEF IInv, IngestInv, TypeOK, Draft, NoRepeatedSnapshot, DraftInv, DraftOf
      <3> QED
        BY <1>1, <3>1, ExtendedHistory, CommitPosts
    <2>3. ASSUME NEW m \in Messages PROVE RepeatFree(metrics'[i][m])
      <3>1. /\ metrics[i][m] \in Seq(Points) /\ draft[s].metrics[m] \in Points \cup {None}
            /\ RepeatFree(metrics[i][m]) /\ Fits(metrics[i][m], draft[s].metrics[m])
        BY <2>1 DEF IInv, IngestInv, TypeOK, Draft, NoRepeatedSnapshot, DraftInv, DraftOf
      <3> QED
        BY <1>1, <3>1, ExtendedHistory, CommitPosts
    <2>4. ASSUME NEW j \in RowIds \ {i}
          PROVE  RepeatFree(counters'[j]) /\ \A m \in Messages : RepeatFree(metrics'[j][m])
      BY <1>1, <2>1, CommitSpares DEF IInv, NoRepeatedSnapshot
    <2> QED
      BY <2>2, <2>3, <2>4 DEF NoRepeatedSnapshot, RepeatFree
  <1>2. ASSUME NEW u \in Usernames, Delete(u)
        PROVE  NoRepeatedSnapshot'
    <2> DEFINE i == rows[u].id
    <2>1. RepeatFree(<<>>)
      BY DEF RepeatFree
    <2>2. /\ counters'[i] = <<>> /\ \A m \in Messages : metrics'[i][m] = <<>>
          /\ \A j \in RowIds \ {i} : counters'[j] = counters[j] /\ metrics'[j] = metrics[j]
      BY <1>2, DeleteErases
    <2> HIDE DEF i
    <2>3. \A j \in RowIds : /\ RepeatFree(counters[j])
                            /\ \A m \in Messages : RepeatFree(metrics[j][m])
      BY DEF IInv, NoRepeatedSnapshot
    <2>4. \A j \in RowIds : /\ RepeatFree(counters'[j])
                            /\ \A m \in Messages : RepeatFree(metrics'[j][m])
      BY <2>1, <2>2, <2>3, Zenon
    <2> QED
      BY <2>4 DEF NoRepeatedSnapshot, RepeatFree
  <1>3. CASE UNCHANGED <<posts, metrics, counters>>
    BY <1>3 DEF IInv, NoRepeatedSnapshot, RepeatFree
  <1> QED
    BY <1>1, <1>2, <1>3, HistoryFrame

(* No step but a delete takes the row of an id away. *)
LEMMA PublishKeepsOwners ==
    ASSUME TypeOK, NEW s \in Sessions, NEW row \in Row, row.id = loaded[s].id, Writer(s),
           rows' = [rows EXCEPT ![user[s]] = row]
    PROVE  \A i \in RowIds : Owned(i) \/ i = loaded[s].id => Owned(i)'
  <1>1. user[s] \in Usernames /\ rows'[user[s]] = row /\ row # None
    BY NoneIsNoRow DEF TypeOK, Writer
  <1>2. \A u \in Usernames \ {user[s]} : rows'[u] = rows[u]
    BY DEF TypeOK
  <1>3. rows[user[s]] # None => rows[user[s]].id = row.id
    BY DEF Writer
  <1> QED
    BY <1>1, <1>2, <1>3 DEF Owned

(* An id keeps its owner unless that channel is deleted. *)
LEMMA OwnersKept ==
    ASSUME IInv, [Next]_vars, NEW i \in RowIds, Owned(i),
           \A u \in Usernames : ~(Delete(u) /\ rows[u].id = i)
    PROVE  Owned(i)'
  <1> USE DEF IInv, IngestInv
  <1>1. CASE UNCHANGED rows
    BY <1>1 DEF Owned
  <1>2. ASSUME NEW s \in Sessions, AddCommit(s)
        PROVE  Owned(i)'
    BY <1>2 DEF AddCommit, Owned, TypeOK
  <1>3. ASSUME NEW s \in Sessions, NEW row \in Row, row.id = loaded[s].id, Writer(s),
               rows' = [rows EXCEPT ![user[s]] = row]
        PROVE  Owned(i)'
    BY <1>3, PublishKeepsOwners
  <1>4. ASSUME NEW s \in Sessions, MarkCommit(s), ~UNCHANGED rows
        PROVE  Owned(i)'
    <2>1. /\ Free(s) /\ ~Stale(s) /\ pc[s] \in RowPcs
          /\ rows' = [rows EXCEPT ![user[s]] = Written(Stored(s), loaded[s], Pending(loaded[s]))]
      BY <1>4 DEF MarkCommit, RowPcs, StorePcs
    <2>2. Writer(s)
      BY <2>1, FreeWriter
    <2> QED
      BY <1>3, <2>1, <2>2, PublishedRow DEF Writer
  <1>5. ASSUME NEW s \in Sessions, RecordFailure(s) \/ Commit(s)
        PROVE  Owned(i)'
    <2>1. pc[s] \in RowPcs /\ Publish(s)
      BY <1>5 DEF RecordFailure, Commit, RowPcs, WritePcs, IngestPcs, StorePcs
    <2>2. Writer(s)
      BY <1>5, <2>1, FreeWriter, CommitPosts DEF RecordFailure
    <2> QED
      BY <1>3, <2>1, <2>2, PublishedRow DEF Publish, Writer
  <1>6. ASSUME NEW u \in Usernames, Delete(u)
        PROVE  Owned(i)'
    BY <1>6 DEF Delete, Owned, TypeOK
  <1>7. \/ UNCHANGED rows
        \/ \E s \in Sessions : AddCommit(s) \/ MarkCommit(s) \/ RecordFailure(s) \/ Commit(s)
        \/ \E u \in Usernames : Delete(u)
    BY ZenonT(40)
    DEF Next, StoreStep, Begin, Acquire, Advance, AddLookup, AddRejected, MarkLookup, MarkUnknown,
        InsertRaises, IngestLoad, IngestUnknown, IngestInsert, FlushRaises, Flush, FetchFails,
        FetchReturns, CountPosts, UpsertPosts, WriteMetrics, WriteCounters, Raise, tables, vars,
        storeVars
  <1> QED
    BY <1>1, <1>2, <1>4, <1>5, <1>6, <1>7

(* No step leaves posts or snapshots without their channel or post. *)
LEMMA OrphanStep == IInv /\ [Next]_vars => NoOrphans'
  <1> SUFFICES ASSUME IInv, [Next]_vars PROVE NoOrphans'
    OBVIOUS
  <1>1. ASSUME NEW s \in Sessions, Commit(s), \A u \in Usernames : ~Delete(u)
        PROVE  NoOrphans'
    <2>1. loaded[s].id \in RowIds /\ pc[s] \in WritePcs /\ Writer(s)
      BY <1>1, CommitPosts
    <2> PICK i \in RowIds : i = loaded[s].id
      BY <2>1
    <2>2. Owned(i)'
      <3>1. Publish(s) /\ pc[s] \in RowPcs
        BY <1>1 DEF Commit, RowPcs, WritePcs, IngestPcs, StorePcs
      <3> QED
        BY <2>1, <3>1, PublishedRow, PublishKeepsOwners DEF IInv, IngestInv, Publish, Writer
    <2>3. \A m \in Messages : metrics'[i][m] # <<>> => posts'[i][m] # None
      <3> TAKE m \in Messages
      <3>1. draft[s].metrics[m] # None => draft[s].posts[m] # None
        BY <2>1 DEF IInv, IngestInv, DraftInv, DraftOf
      <3>2. metrics[i][m] # <<>> => posts[i][m] # None
        BY <2>1 DEF IInv, NoOrphans
      <3> QED
        BY <1>1, <3>1, <3>2, CommitPosts DEF Extended
    <2>4. ASSUME NEW j \in RowIds \ {i}
          PROVE  /\ counters'[j] # <<>> => Owned(j)'
                 /\ \A m \in Messages : /\ posts'[j][m] # None => Owned(j)'
                                        /\ metrics'[j][m] # <<>> => posts'[j][m] # None
      BY <1>1, <2>1, CommitSpares, OwnersKept DEF IInv, NoOrphans
    <2> QED
      BY <2>2, <2>3, <2>4 DEF NoOrphans
  <1>2. ASSUME NEW u \in Usernames, Delete(u)
        PROVE  NoOrphans'
    <2>1. ASSUME NEW j \in RowIds \ {rows[u].id}
          PROVE  /\ counters'[j] # <<>> => Owned(j)'
                 /\ \A m \in Messages : /\ posts'[j][m] # None => Owned(j)'
                                        /\ metrics'[j][m] # <<>> => posts'[j][m] # None
      <3>1. Owned(j) => Owned(j)'
        BY <1>2, <2>1 DEF Owned, Delete, IInv, TypeOK
      <3> QED
        BY <1>2, <2>1, <3>1, DeleteErases DEF IInv, NoOrphans
    <2> QED
      BY <1>2, <2>1, DeleteErases DEF NoOrphans
  <1>3. CASE UNCHANGED <<posts, metrics, counters>> /\ \A u \in Usernames : ~Delete(u)
    BY <1>3, OwnersKept DEF IInv, NoOrphans
  <1> QED
    BY <1>1, <1>2, <1>3, HistoryFrame
-----------------------------------------------------------------------------
(***************************************************************************)
(* The inductive invariant holds, and with it the properties that the runs *)
(* check on small instances.                                               *)
(***************************************************************************)
LEMMA InvInit == Init => IInv
  <1> SUFFICES ASSUME Init PROVE IInv
    OBVIOUS
  <1>1. TypeOK
    BY TypeInit
  <1>2. PcInv /\ LockInv /\ IdInv /\ HeldInv
    BY NoneIsNoName
    DEF Init, StoreInit, PcInv, LockInv, IdInv, HeldInv, Holds, RowPcs, HoldPcs, PagePcs, WritePcs
  <1>3. DraftInv
    BY DEF Init, StoreInit, DraftInv, DraftOf, WritePcs
  <1>4. NoRepeatedSnapshot /\ NoOrphans
    BY DEF Init, StoreInit, NoRepeatedSnapshot, NoOrphans, RepeatFree
  <1> QED
    BY <1>1, <1>2, <1>3, <1>4 DEF IInv, IngestInv

(***************************************************************************)
(* Every reachable state is typed, and a session in its write phase has    *)
(* its channel to itself.                                                  *)
(***************************************************************************)
THEOREM IngestInvariance == Spec => []IInv
  <1>1. Init => IInv
    BY InvInit
  <1>2. IInv /\ [Next]_vars => IInv'
    BY TypeStep, PcStep, LockStep, IdStep, DraftStep, RepeatStep, OrphanStep DEF IInv, IngestInv
  <1> QED
    BY <1>1, <1>2, PTL DEF Spec

(* Every variable of an ingest, add, mark or delete keeps its type. *)
THEOREM IngestTyped == Spec => []TypeOK
  <1>1. IInv => TypeOK
    BY DEF IInv
  <1> QED
    BY <1>1, IngestInvariance, PTL

(***************************************************************************)
(* While a session is in the write phase of an ingest its channel is its   *)
(* own, and no id is shared.                                               *)
(***************************************************************************)
THEOREM WritersHaveTheirChannel == Spec => []IngestInv
  <1>1. IInv => IngestInv
    BY DEF IInv
  <1> QED
    BY <1>1, IngestInvariance, PTL

(***************************************************************************)
(* README, Data model: a snapshot is written only when the value changed   *)
(* since the last one, however many ingests of the channel overlap.        *)
(***************************************************************************)
THEOREM SnapshotsNeverRepeat == Spec => []NoRepeatedSnapshot
  <1>1. IInv => NoRepeatedSnapshot
    BY DEF IInv
  <1> QED
    BY <1>1, IngestInvariance, PTL

(***************************************************************************)
(* No post or snapshot outlives its channel, although an ingest may have   *)
(* loaded the channel before it was deleted.                               *)
(***************************************************************************)
THEOREM NothingIsOrphaned == Spec => []NoOrphans
  <1>1. IInv => NoOrphans
    BY DEF IInv
  <1> QED
    BY <1>1, IngestInvariance, PTL
-----------------------------------------------------------------------------
(***************************************************************************)
(* Refinement: each history evolves as MetricHistory allows.               *)
(***************************************************************************)
Subjects == RowIds \X (Messages \cup {None})

(* A subject is a channel, or one of its posts. *)
LEMMA SubjectHistory ==
    ASSUME NEW x \in Subjects
    PROVE  /\ x[1] \in RowIds
           /\ x[2] = None \/ x[2] \in Messages
           /\ x[2] = None => Histories[x] = counters[x[1]] /\ Histories'[x] = counters'[x[1]]
           /\ x[2] # None => /\ Histories[x] = metrics[x[1]][x[2]]
                             /\ Histories'[x] = metrics'[x[1]][x[2]]
  BY DEF Subjects, Histories

(* What a commit does to one history is a Record or nothing. *)
LEMMA ExtendedRecords ==
    ASSUME NEW history \in Seq(Points), NEW point \in Points \cup {None}, Fits(history, point)
    PROVE  \/ Extended(history, point) = history
           \/ /\ point \in Points
              /\ Extended(history, point) = Append(history, point)
              /\ history = <<>> \/ history[Len(history)].value # point.value
  BY DEF Extended, Fits, Unchanged

(* The empty tables are empty histories. *)
LEMMA HistoryInit == Init => History!Init
  BY SubjectHistory DEF Init, StoreInit, History!Init, Subjects, Histories

(* Every step of an ingest is a step of the histories, or none of theirs. *)
LEMMA HistoryStep == IInv /\ [Next]_vars => [History!Next]_Histories
  <1> SUFFICES ASSUME IInv, [Next]_vars PROVE History!Next \/ UNCHANGED Histories
    OBVIOUS
  <1>1. DOMAIN Histories' = Subjects
    BY DEF Histories, Subjects
  <1>2. ASSUME NEW s \in Sessions, Commit(s)
        PROVE  History!Next
    <2>1. loaded[s].id \in RowIds /\ pc[s] \in WritePcs
      BY <1>2, CommitPosts
    <2> PICK i \in RowIds : i = loaded[s].id
      BY <2>1
    <2>2. ASSUME NEW x \in Subjects
          PROVE  History!Record(x) \/ Histories'[x] = Histories[x]
      <3>1. CASE x[1] # i
        BY <1>2, <2>1, <3>1, CommitSpares, SubjectHistory
      <3>2. CASE x[1] = i
        <4> DEFINE point == IF x[2] = None THEN draft[s].counters ELSE draft[s].metrics[x[2]]
        <4>1. /\ Histories[x] \in Seq(Points) /\ point \in Points \cup {None}
              /\ Fits(Histories[x], point)
          BY <2>1, <3>2, SubjectHistory
          DEF IInv, IngestInv, TypeOK, Draft, DraftInv, DraftOf
        <4>2. Histories'[x] = Extended(Histories[x], point)
          BY <1>2, <3>2, CommitPosts, SubjectHistory
        <4> HIDE DEF point
        <4> QED
          BY <4>1, <4>2, ExtendedRecords
          DEF History!Record, History!Changed, History!Point, Points
      <3> QED
        BY <3>1, <3>2
    <2>3. History!Measure
      BY <2>2 DEF History!Measure, Subjects
    <2> QED
      BY <1>1, <2>3 DEF History!Next, Subjects
  <1>3. ASSUME NEW u \in Usernames, Delete(u)
        PROVE  History!Next
    <2>1. ASSUME NEW x \in Subjects
          PROVE  Histories'[x] \in {<<>>, Histories[x]}
      BY <1>3, DeleteErases, SubjectHistory
    <2>2. History!Erase
      BY <2>1 DEF History!Erase, Subjects
    <2> QED
      BY <1>1, <2>2 DEF History!Next, Subjects
  <1>4. CASE UNCHANGED <<posts, metrics, counters>>
    BY <1>4 DEF Histories
  <1> QED
    BY <1>2, <1>3, <1>4, HistoryFrame

(***************************************************************************)
(* The ingests implement the histories that ADR 0002 describes.            *)
(***************************************************************************)
THEOREM IngestImplementsHistory == Spec => ImplementsHistory
  <1>1. Init => History!Init
    BY HistoryInit
  <1>2. IInv /\ [Next]_vars => [History!Next]_Histories
    BY HistoryStep
  <1> QED
    BY <1>1, <1>2, IngestInvariance, PTL DEF Spec, ImplementsHistory, History!Spec
-----------------------------------------------------------------------------
(***************************************************************************)
(* What the write phase has read, a statement at a time: each of its reads *)
(* is still what the tables of its channel hold, so that at the commit the *)
(* counts, the hashes and the points are those of one moment.  A call that *)
(* has not ended has no result yet.                                        *)
(***************************************************************************)
ReadsOf(s) ==
    LET i == loaded[s].id
        parsed == page[s].posts
    IN  /\ pc[s] \in {"upserting", "measuring", "sizing", "committing"} =>
              \A m \in Messages :
                 /\ m \in report[s].created <=> m \in DOMAIN parsed /\ posts[i][m] = None
                 /\ m \in report[s].edited <=>
                       m \in DOMAIN parsed /\ posts[i][m] \notin {None, parsed[m].hash}
        /\ pc[s] \in {"measuring", "sizing", "committing"} =>
              \A m \in Messages :
                 draft[s].posts[m] = IF m \in DOMAIN parsed THEN parsed[m].hash ELSE None
        /\ pc[s] \in {"sizing", "committing"} =>
              \A m \in DOMAIN parsed :
                 draft[s].metrics[m] = Snapshot(metrics[i][m], parsed[m].metric, now[s])
        /\ pc[s] = "committing" =>
              draft[s].counters = Snapshot(counters[i], page[s].counters, now[s])

NoResultYet(s) == pc[s] # "idle" => result[s] = "none"

ReadsInv == \A s \in Sessions : ReadsOf(s) /\ NoResultYet(s)

(* The history of the channel that t loaded stays as it is. *)
HistoryKept(t) ==
    LET i == loaded[t].id
    IN  posts'[i] = posts[i] /\ metrics'[i] = metrics[i] /\ counters'[i] = counters[i]

(***************************************************************************)
(* Nobody writes the posts or the snapshots of a channel while a session   *)
(* is in the write phase of an ingest of it.                               *)
(***************************************************************************)
LEMMA WriterAlone ==
    ASSUME IInv, [Next]_vars, NEW t \in Sessions, pc[t] \in WritePcs, ~Commit(t)
    PROVE  HistoryKept(t)
  <1>1. ASSUME NEW s \in Sessions, Commit(s)
        PROVE  HistoryKept(t)
    <2>1. s # t /\ pc[s] \in WritePcs
      BY <1>1 DEF Commit, WritePcs
    <2> QED
      BY <1>1, <2>1, WritersDiffer, CommitSpares DEF HistoryKept
  <1>2. ASSUME NEW u \in Usernames, Delete(u)
        PROVE  HistoryKept(t)
    <2>1. user[t] \in Usernames /\ Holds(t, user[t]) /\ loaded[t] \in Row
      BY DEF IInv, IngestInv, PcInv, LockInv, Holds, RowPcs, IngestPcs, WritePcs
    <2>2. loaded[t].id # rows[u].id /\ loaded[t].id \in RowIds
      BY <1>2, <2>1, NoneIsNoName DEF Delete, IInv, IngestInv, IdInv, Holds, Row
    <2> QED
      BY <1>2, <2>2, DeleteErases DEF HistoryKept
  <1> QED
    BY <1>1, <1>2, HistoryFrame DEF HistoryKept

(***************************************************************************)
(* A step of the system is a read of t, or ends or precedes the reads of   *)
(* t, or leaves alone what t knows.                                        *)
(***************************************************************************)
LEMMA StepsOf ==
    ASSUME IInv, [Next]_vars, NEW t \in Sessions
    PROVE  \/ CountPosts(t) \/ UpsertPosts(t) \/ WriteMetrics(t) \/ WriteCounters(t)
           \/ pc'[t] \notin {"upserting", "measuring", "sizing", "committing"}
           \/ /\ UNCHANGED <<pc[t], loaded[t], page[t], now[t], draft[t], report[t]>>
              /\ ~Commit(t)
  <1> DEFINE Same == /\ UNCHANGED <<pc[t], loaded[t], page[t], now[t], draft[t], report[t]>>
                     /\ ~Commit(t)
             Past == pc'[t] \notin {"upserting", "measuring", "sizing", "committing"}
  <1> USE DEF IInv
  <1>1. ASSUME NEW s \in Sessions, NEW outcome, End(s, outcome), Forget(s) \/ UNCHANGED ingestVars
        PROVE  Same \/ Past
    BY <1>1 DEF End, Forget, ingestVars, TypeOK, Commit
  <1>2. ASSUME NEW s \in Sessions, StoreStep(s)
        PROVE  Same \/ Past
    BY <1>1, <1>2 DEF StoreStep, AddLookup, AddRejected, MarkLookup, MarkUnknown, AddCommit,
       InsertRaises, MarkCommit, Loaded, ingestVars, TypeOK, Commit
  <1>3. ASSUME NEW s \in Sessions, Begin(s) \/ IngestInsert(s)
        PROVE  Same \/ Past
    BY <1>3 DEF Begin, IngestLoad, IngestUnknown, IngestInsert, Loaded, Tick, ingestVars,
       TypeOK, Commit, End
  <1>4. ASSUME NEW s \in Sessions, FetchFails(s) \/ FetchReturns(s) \/ Flush(s)
        PROVE  Same \/ Past
    BY <1>4 DEF FetchFails, FetchReturns, Flush, Goto, ingestVars, TypeOK, Commit, End
  <1>5. ASSUME NEW s \in Sessions, RecordFailure(s) \/ FlushRaises(s) \/ Raise(s) \/ Commit(s)
        PROVE  Same \/ Past
    BY <1>1, <1>5 DEF RecordFailure, FlushRaises, Raise, Commit
  <1>6. ASSUME NEW s \in Sessions \ {t},
               CountPosts(s) \/ UpsertPosts(s) \/ WriteMetrics(s) \/ WriteCounters(s)
        PROVE  Same
    BY <1>6 DEF CountPosts, UpsertPosts, WriteMetrics, WriteCounters, Goto, TypeOK, Commit, End
  <1>7. ASSUME \E u \in Usernames : Delete(u) /\ UNCHANGED ingestVars
        PROVE  Same \/ Past
    BY <1>7 DEF Delete, ingestVars, Commit, End, TypeOK
  <1>8. ASSUME UNCHANGED vars
        PROVE  Same
    BY <1>8 DEF vars, storeVars, Commit, End, TypeOK
  <1> HIDE DEF Same, Past
  <1>9. \/ CountPosts(t) \/ UpsertPosts(t) \/ WriteMetrics(t) \/ WriteCounters(t)
        \/ Same \/ Past
    <2> DEFINE Read(s) == CountPosts(s) \/ UpsertPosts(s) \/ WriteMetrics(s) \/ WriteCounters(s)
    <2>1. ASSUME NEW s \in Sessions, Acquire(s) \/ Advance(s) \/ Raise(s)
          PROVE  Read(t) \/ Same \/ Past
      <3>1. CASE Read(s)
        BY <1>6, <3>1
      <3> QED
        BY <1>3, <1>4, <1>5, <2>1, <3>1 DEF Acquire, Advance
    <2> QED
      <3>1. CASE \E s \in Sessions : StoreStep(s) \/ Begin(s)
        BY <1>2, <1>3, <3>1
      <3> QED
        BY <1>7, <1>8, <2>1, <3>1 DEF Next
  <1> QED
    BY <1>9 DEF Same, Past

(***************************************************************************)
(* Each statement of the write phase adds what it read.                    *)
(***************************************************************************)
LEMMA ReadsAreMade ==
    ASSUME IInv, ReadsInv, NEW t \in Sessions,
           CountPosts(t) \/ UpsertPosts(t) \/ WriteMetrics(t) \/ WriteCounters(t)
    PROVE  ReadsOf(t)'
  <1> DEFINE i == loaded[t].id
             parsed == page[t].posts
  <1>1. /\ UNCHANGED <<posts, metrics, counters, loaded, page, now>>
        /\ pc[t] \in WritePcs /\ page[t] \in Pages
        /\ draft \in [Sessions -> Draft]
    BY DEF CountPosts, UpsertPosts, WriteMetrics, WriteCounters, tables, WritePcs, IInv,
       IngestInv, PcInv, PagePcs, TypeOK
  <1>2. DOMAIN parsed \subseteq Messages
    BY <1>1, PageType
  <1>3. CASE CountPosts(t)
    <2>1. pc'[t] = "upserting"
      BY <1>3 DEF CountPosts, Goto, IInv, TypeOK
    <2>2. /\ report'[t].created = {m \in DOMAIN parsed : posts[i][m] = None}
          /\ report'[t].edited = {m \in DOMAIN parsed :
                                     posts[i][m] \notin {None, parsed[m].hash}}
      BY <1>3 DEF CountPosts, Id, IInv, TypeOK
    <2> QED
      BY <1>1, <2>1, <2>2 DEF ReadsOf
  <1>4. CASE UpsertPosts(t)
    <2>1. pc'[t] = "measuring" /\ pc[t] = "upserting" /\ report' = report
      BY <1>4 DEF UpsertPosts, Goto, IInv, TypeOK
    <2>2. \A m \in Messages :
             draft'[t].posts[m] = IF m \in DOMAIN parsed THEN parsed[m].hash ELSE None
      BY <1>1, <1>4 DEF UpsertPosts
    <2>3. ReadsOf(t)
      BY DEF ReadsInv
    <2> QED
      BY <1>1, <2>1, <2>2, <2>3 DEF ReadsOf
  <1>5. CASE WriteMetrics(t)
    <2>1. pc'[t] = "sizing" /\ pc[t] = "measuring" /\ report' = report
      BY <1>5 DEF WriteMetrics, Goto, IInv, TypeOK
    <2>2. /\ draft'[t].posts = draft[t].posts
          /\ \A m \in DOMAIN parsed :
                draft'[t].metrics[m] = Snapshot(metrics[i][m], parsed[m].metric, now[t])
      BY <1>1, <1>2, <1>5 DEF WriteMetrics, Id
    <2>3. ReadsOf(t)
      BY DEF ReadsInv
    <2> QED
      BY <1>1, <2>1, <2>2, <2>3 DEF ReadsOf
  <1>6. CASE WriteCounters(t)
    <2>1. pc'[t] = "committing" /\ pc[t] = "sizing" /\ report' = report
      BY <1>6 DEF WriteCounters, Goto, IInv, TypeOK
    <2>2. /\ draft'[t].posts = draft[t].posts /\ draft'[t].metrics = draft[t].metrics
          /\ draft'[t].counters = Snapshot(counters[i], page[t].counters, now[t])
      BY <1>1, <1>6 DEF WriteCounters, Id
    <2>3. ReadsOf(t)
      BY DEF ReadsInv
    <2> QED
      BY <1>1, <2>1, <2>2, <2>3 DEF ReadsOf
  <1> QED
    BY <1>3, <1>4, <1>5, <1>6

(***************************************************************************)
(* A call has no result until it ends.                                     *)
(***************************************************************************)
LEMMA ResultStep ==
    ASSUME IInv, ReadsInv, [Next]_vars, NEW t \in Sessions
    PROVE  NoResultYet(t)'
  <1> USE DEF IInv, TypeOK, ReadsInv, NoResultYet
  <1>1. ASSUME NEW s \in Sessions, NEW outcome, End(s, outcome)
        PROVE  NoResultYet(t)'
    BY <1>1 DEF End
  <1>2. ASSUME NEW s \in Sessions, NEW u, NEW row, NEW step, Loaded(s, u, row, step)
        PROVE  NoResultYet(t)'
    BY <1>2 DEF Loaded
  <1>3. ASSUME NEW s \in Sessions, NEW u \in Usernames, AddRejected(s, u) \/ MarkUnknown(s, u)
        PROVE  NoResultYet(t)'
    BY <1>3 DEF AddRejected, MarkUnknown
  <1>4. ASSUME NEW s \in Sessions, NEW step, pc[s] # "idle", pc' = [pc EXCEPT ![s] = step],
               result' = result
        PROVE  NoResultYet(t)'
    BY <1>4
  <1>5. ASSUME UNCHANGED <<pc, result>>
        PROVE  NoResultYet(t)'
    BY <1>5
  <1>6. ASSUME NEW s \in Sessions, StoreStep(s) PROVE NoResultYet(t)'
    BY <1>1, <1>2, <1>3, <1>6 DEF StoreStep, AddLookup, MarkLookup, AddCommit, InsertRaises,
       MarkCommit
  <1>7. ASSUME NEW s \in Sessions, Begin(s) \/ Acquire(s) \/ Raise(s) \/ Commit(s)
        PROVE  NoResultYet(t)'
    BY <1>1, <1>2, <1>7 DEF Begin, Acquire, IngestLoad, IngestUnknown, IngestInsert,
       RecordFailure, FlushRaises, Flush, Goto, Raise, Commit
  <1>8. ASSUME NEW s \in Sessions, Advance(s), ~Commit(s)
        PROVE  NoResultYet(t)'
    BY <1>4, <1>8 DEF Advance, FetchFails, FetchReturns, CountPosts, UpsertPosts, WriteMetrics,
       WriteCounters, Goto
  <1> QED
    BY <1>6, <1>7, <1>8 DEF Next, Delete, vars, storeVars

(***************************************************************************)
(* The reads of a transaction stay true to its commit.                     *)
(***************************************************************************)
LEMMA ReadsStep == IInv /\ ReadsInv /\ [Next]_vars => ReadsInv'
  <1> SUFFICES ASSUME IInv, ReadsInv, [Next]_vars, NEW t \in Sessions
               PROVE  ReadsOf(t)' /\ NoResultYet(t)'
    BY DEF ReadsInv
  <1>1. CASE CountPosts(t) \/ UpsertPosts(t) \/ WriteMetrics(t) \/ WriteCounters(t)
    <2>1. NoResultYet(t)'
      BY <1>1 DEF ReadsInv, NoResultYet, CountPosts, UpsertPosts, WriteMetrics, WriteCounters
    <2> QED
      BY <1>1, <2>1, ReadsAreMade
  <1>2. CASE pc'[t] \notin {"upserting", "measuring", "sizing", "committing"}
    BY <1>2, ResultStep DEF ReadsOf
  <1>3. CASE /\ UNCHANGED <<pc[t], loaded[t], page[t], now[t], draft[t], report[t]>>
             /\ ~Commit(t)
    <2>1. CASE pc[t] \in WritePcs
      <3>1. HistoryKept(t) /\ ReadsOf(t) /\ NoResultYet(t)'
        BY <1>3, <2>1, WriterAlone, ResultStep DEF ReadsInv
      <3>2. /\ UNCHANGED <<loaded[t].id, page[t].posts, page[t].counters>>
            /\ UNCHANGED <<posts[loaded[t].id], metrics[loaded[t].id], counters[loaded[t].id]>>
        BY <1>3, <3>1 DEF HistoryKept
      <3>3. ReadsOf(t)'
        BY <1>3, <3>1, <3>2 DEF ReadsOf
      <3> QED
        BY <3>1, <3>3
    <2>2. CASE pc[t] \notin WritePcs
      BY <1>3, <2>2, ResultStep DEF ReadsOf, WritePcs
    <2> QED
      BY <2>1, <2>2
  <1> QED
    BY <1>1, <1>2, <1>3, StepsOf

(* The empty tables: no call has begun. *)
LEMMA ReadsStart == Init => ReadsInv
  BY DEF Init, StoreInit, ReadsInv, ReadsOf, NoResultYet

(***************************************************************************)
(* The invariant of the reads holds throughout.                            *)
(***************************************************************************)
THEOREM ReadsStayTrue == Spec => [](IInv /\ ReadsInv)
  BY ReadsStart, ReadsStep, IngestInvariance, PTL DEF Spec

(***************************************************************************)
(* The step in which a session that commits returns success is its commit. *)
(***************************************************************************)
LEMMA SuccessCommits ==
    ASSUME IInv, ReadsInv, [Next]_vars, NEW s \in Sessions,
           pc[s] = "committing", result'[s] = "active"
    PROVE  Commit(s)
  <1>1. result[s] = "none"
    BY DEF ReadsInv, NoResultYet
  <1>2. ASSUME NEW t \in Sessions, NEW outcome, result' = [result EXCEPT ![t] = outcome],
               t # s \/ outcome # "active"
        PROVE  FALSE
    BY <1>1, <1>2
  <1>3. result' # result
    BY <1>1
  <1>4. ASSUME NEW t \in Sessions, StoreStep(t)
        PROVE  FALSE
    BY <1>2, <1>4 DEF StoreStep, AddLookup, AddRejected, MarkLookup, MarkUnknown, AddCommit,
       InsertRaises, MarkCommit, End, Loaded
  <1>5. ASSUME NEW t \in Sessions, Begin(t) \/ IngestInsert(t) \/ FlushRaises(t) \/ Flush(t) \/ Raise(t)
        PROVE  FALSE
    BY <1>2, <1>3, <1>5 DEF Begin, IngestLoad, IngestUnknown, IngestInsert, FlushRaises, Flush,
       Raise, End, Loaded
  <1>6. ASSUME NEW t \in Sessions, RecordFailure(t)
        PROVE  FALSE
    BY <1>2, <1>6 DEF RecordFailure, End
  <1>7. ASSUME NEW t \in Sessions, Advance(t), ~Commit(t)
        PROVE  FALSE
    BY <1>3, <1>7 DEF Advance, FetchFails, FetchReturns, CountPosts, UpsertPosts, WriteMetrics,
       WriteCounters
  <1>8. ASSUME NEW t \in Sessions, Commit(t)
        PROVE  t = s
    BY <1>2, <1>8 DEF Commit, End
  <1> QED
    BY <1>3, <1>4, <1>5, <1>6, <1>7, <1>8 DEF Next, Acquire, Delete, vars, storeVars

(***************************************************************************)
(* A snapshot writer that adds nothing leaves the fetched value last.      *)
(***************************************************************************)
LEMMA SnapshotPublishes ==
    ASSUME NEW history \in Seq(Points), NEW value \in Values \cup {None}, NEW t \in Times
    PROVE  LastIs(Extended(history, Snapshot(history, value, t)), value)
  <1>1. CASE value = None \/ Unchanged(history, value)
    BY <1>1 DEF Snapshot, Extended, LastIs, Unchanged
  <1>2. CASE ~(value = None \/ Unchanged(history, value))
    <2>1. /\ Snapshot(history, value, t) = [at |-> t, value |-> value]
          /\ [at |-> t, value |-> value] \in Points
      BY <1>2 DEF Snapshot, Points
    <2>2. /\ Extended(history, Snapshot(history, value, t))
               = Append(history, [at |-> t, value |-> value])
          /\ Len(Append(history, [at |-> t, value |-> value])) = Len(history) + 1
          /\ Len(history) \in Nat
          /\ Append(history, [at |-> t, value |-> value])[Len(history) + 1]
               = [at |-> t, value |-> value]
      BY <2>1, NoneIsNoPoint DEF Extended, Points
    <2> QED
      BY <2>2 DEF LastIs
  <1> QED
    BY <1>1, <1>2

(***************************************************************************)
(* An ingest that returns success has published its page.                  *)
(***************************************************************************)
THEOREM CommitsPublishTheFetch == Spec => CommitPublishesFetch
  <1>1. IInv /\ ReadsInv /\ [Next]_vars =>
           [\A s \in Sessions : pc[s] = "committing" /\ result'[s] = "active" => PublishedFetch(s)]_vars
    <2> SUFFICES ASSUME IInv, ReadsInv, [Next]_vars, NEW s \in Sessions,
                        pc[s] = "committing", result'[s] = "active"
                 PROVE  PublishedFetch(s)
      OBVIOUS
    <2> DEFINE i == loaded[s].id
               p == page[s]
    <2>1. Commit(s)
      BY SuccessCommits
    <2>2. /\ p \in Pages /\ now[s] \in Times /\ i \in RowIds /\ user[s] \in Usernames
      BY DEF IInv, IngestInv, PcInv, PagePcs, HoldPcs, RowPcs, WritePcs, IngestPcs, Row
    <2>3. /\ DOMAIN p.posts \subseteq Messages
          /\ \A m \in DOMAIN p.posts : /\ p.posts[m].hash \in Hashes
                                       /\ p.posts[m].metric \in Values \cup {None}
          /\ p.counters \in Values \cup {None}
      BY <2>2, PageType
    <2>4. ReadsOf(s) /\ draft[s].posts \in [Messages -> Hashes \cup {None}]
      BY DEF ReadsInv, IInv, TypeOK, Draft
    <2>5. \A m \in DOMAIN p.posts : posts'[i][m] = p.posts[m].hash
      BY <2>4, <2>1, <2>3, CommitPosts, NoneIsNoData DEF ReadsOf
    <2>6. ASSUME NEW m \in DOMAIN p.posts PROVE LastIs(metrics'[i][m], p.posts[m].metric)
      <3>1. metrics'[i][m] = Extended(metrics[i][m], Snapshot(metrics[i][m], p.posts[m].metric, now[s]))
        BY <2>4, <2>1, <2>3, CommitPosts DEF ReadsOf
      <3>2. metrics[i][m] \in Seq(Points) /\ p.posts[m].metric \in Values \cup {None}
        BY <2>2, <2>3 DEF IInv, TypeOK
      <3> QED
        BY <2>2, <3>1, <3>2, SnapshotPublishes
    <2>7. LastIs(counters'[i], p.counters)
      <3>1. counters'[i] = Extended(counters[i], Snapshot(counters[i], p.counters, now[s]))
        BY <2>4, <2>1, CommitPosts DEF ReadsOf
      <3>2. counters[i] \in Seq(Points)
        BY <2>2 DEF IInv, TypeOK
      <3> QED
        BY <2>2, <2>3, <3>1, <3>2, SnapshotPublishes
    <2>8. rows'[user[s]] # None /\ rows'[user[s]].id = i
      <3>1. Publish(s) /\ Writer(s) /\ pc[s] \in RowPcs
        BY <2>1, CommitPosts DEF Commit, RowPcs, IngestPcs
      <3>2. /\ Written(Stored(s), loaded[s], object[s]) \in Row
            /\ Written(Stored(s), loaded[s], object[s]).id = i
        BY <3>1, PublishedRow DEF IInv, IngestInv, Writer
      <3> QED
        BY <2>2, <3>1, <3>2, NoneIsNoRow DEF Publish, IInv, TypeOK
    <2> QED
      BY <2>5, <2>6, <2>7, <2>8 DEF PublishedFetch
  <1> QED
    BY <1>1, ReadsStayTrue, PTL DEF Spec, CommitPublishesFetch

(***************************************************************************)
(* posts_created and posts_edited are the posts that the commit adds and   *)
(* those whose content it changes, although they were counted earlier.     *)
(***************************************************************************)
THEOREM CountsAreExact == Spec => CountsExact
  <1> DEFINE Altered(s) == {m \in Messages : posts'[loaded[s].id][m] # posts[loaded[s].id][m]}
             Exact(s) ==
                /\ report[s].created = {m \in Altered(s) : posts[loaded[s].id][m] = None}
                /\ report[s].edited = {m \in Altered(s) : posts[loaded[s].id][m] # None}
  <1>1. ASSUME IInv, ReadsInv, [Next]_vars, NEW s \in Sessions,
               pc[s] = "committing", result'[s] = "active"
        PROVE  Exact(s)
    <2> DEFINE i == loaded[s].id
               parsed == page[s].posts
    <2>1. Commit(s)
      BY <1>1, SuccessCommits
    <2>2. page[s] \in Pages
      BY <1>1 DEF IInv, IngestInv, PcInv, PagePcs, WritePcs
    <2>3. DOMAIN parsed \subseteq Messages /\ \A m \in DOMAIN parsed : parsed[m].hash # None
      BY <2>2, PageType, NoneIsNoData
    <2>4. \A m \in Messages : posts'[i][m] = IF m \in DOMAIN parsed THEN parsed[m].hash
                                             ELSE posts[i][m]
      BY <1>1, <2>1, <2>3, CommitPosts DEF ReadsInv, ReadsOf
    <2>5. /\ report[s].created \subseteq Messages /\ report[s].edited \subseteq Messages
          /\ \A m \in Messages :
                /\ m \in report[s].created <=> m \in DOMAIN parsed /\ posts[i][m] = None
                /\ m \in report[s].edited <=>
                      m \in DOMAIN parsed /\ posts[i][m] \notin {None, parsed[m].hash}
      BY <1>1 DEF ReadsInv, ReadsOf, IInv, TypeOK
    <2>6. \A m \in Messages : m \in Altered(s) <=> m \in DOMAIN parsed /\ posts[i][m] # parsed[m].hash
      BY <2>4
    <2>7. report[s].created = {m \in Altered(s) : posts[i][m] = None}
      BY <2>3, <2>5, <2>6
    <2>8. report[s].edited = {m \in Altered(s) : posts[i][m] # None}
      BY <2>3, <2>5, <2>6
    <2> QED
      BY <2>7, <2>8
  <1>2. IInv /\ ReadsInv /\ [Next]_vars =>
           [\A s \in Sessions : pc[s] = "committing" /\ result'[s] = "active" => Exact(s)]_vars
    BY <1>1
  <1>3. [][\A s \in Sessions : pc[s] = "committing" /\ result'[s] = "active" => Exact(s)]_vars
           => CountsExact
    BY DEF CountsExact
  <1> QED
    BY <1>2, <1>3, ReadsStayTrue, PTL DEF Spec
=============================================================================
