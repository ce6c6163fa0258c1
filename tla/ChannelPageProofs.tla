-------------------------- MODULE ChannelPageProofs --------------------------
(***************************************************************************)
(* Proofs about a channel's page: of Digest, for any number of overlapping *)
(* requests, any number of days and any period; then of Statistics, for    *)
(* any finite number of posts, any views and any dates. The statistics are *)
(* of data, and an argument about data is an induction; the induction      *)
(* theorems of the library take a predicate, which the provers cannot      *)
(* instantiate, so it is done here with sets (SubsetInduction,             *)
(* SetInduction).                                                          *)
(***************************************************************************)
EXTENDS ChannelPage, FiniteSetTheorems, FunctionTheorems, SequenceTheorems, TLAPS

(***************************************************************************)
(* A request that has passed get_channel holds the id of a row; the one    *)
(* that read posts has some.  Without a channel row the cascade has left   *)
(* nothing behind, and no answers of it are counted.                      *)
(***************************************************************************)
Working(s) == pc[s] \in {"finding", "reading", "asking", "writing"}

RequestsKnow ==
    /\ \A s \in Sessions : id[s] # None <=> Working(s)
    /\ \A s \in Sessions : pc[s] \in {"asking", "writing"} => texts[s] # {}

NothingWithoutChannel ==
    channel = None => /\ stored = {} /\ DOMAIN digests = {} /\ DOMAIN seen = {}
                      /\ \A d \in Days : repeats[d] = 0

HistoryTypes == repeats \in [Days -> Nat] /\ DOMAIN seen \subseteq Days

(***************************************************************************)
(* A digest of the day once stored, only requests that had missed the      *)
(* cache by then can be answered, each once; one request has stored it.    *)
(***************************************************************************)
Missed(d) == {s \in Sessions : pc[s] \in {"reading", "asking"} /\ id[s] = channel /\ day[s] = d}

AccountedOn(d) ==
    IF <<channel, d>> \in DOMAIN digests
    THEN repeats[d] + Cardinality(Missed(d)) < Cardinality(Sessions)
    ELSE repeats[d] = 0

AnswersAccounted == \A d \in Days : AccountedOn(d)

(***************************************************************************)
(* Whatever is stored now is in the history of each day asked for, so that *)
(* what a request reads, at whatever moment, is in it too.                 *)
(***************************************************************************)
NowIsSeen == \A d \in DOMAIN seen : Wanted(stored, d) \in seen[d]

TextsSeen ==
    \A s \in Sessions : Working(s) /\ id[s] = channel =>
        /\ day[s] \in DOMAIN seen
        /\ pc[s] \in {"asking", "writing"} => texts[s] \in seen[day[s]]

Types == DigestInv /\ HistoryTypes /\ RequestsKnow /\ NothingWithoutChannel

Coverage == NowIsSeen /\ TextsSeen /\ CoversWhatWasThere

IInv == Types /\ AnswersAccounted /\ Coverage
-----------------------------------------------------------------------------
(***************************************************************************)
(* Sets of requests are finite, and there are no more than there are.      *)
(***************************************************************************)
LEMMA SetsOfSessions ==
    ASSUME NEW S \in SUBSET Sessions
    PROVE  /\ IsFiniteSet(S) /\ Cardinality(S) \in Nat /\ Cardinality(Sessions) \in Nat
           /\ Cardinality(S) <= Cardinality(Sessions)
  BY SessionsAreFinite, FS_Subset, FS_CardinalityType

(* The same, for the set that the counts are about                         *)
LEMMA CountsOfRequests ==
    ASSUME NEW d \in Days
    PROVE  /\ IsFiniteSet(Missed(d)) /\ Cardinality(Missed(d)) \in Nat
           /\ Cardinality(Sessions) \in Nat
  <1>1. Missed(d) \in SUBSET Sessions
    BY DEF Missed
  <1> QED
    BY <1>1, SetsOfSessions
-----------------------------------------------------------------------------
(***************************************************************************)
(* Midnight moves no request: each keeps the day it was asked for.         *)
(***************************************************************************)
LEMMA NextDayKeeps ==
    ASSUME IInv, NextDay
    PROVE  IInv'
  <1> USE PeriodIsPositive, NoneIsNoId DEF IInv, NextDay, table, locals, history, Returned
  <1>1. DigestInv'
    BY DEF Types, DigestInv, Days
  <1>2. HistoryTypes' /\ RequestsKnow' /\ NothingWithoutChannel'
    BY DEF Types, HistoryTypes, RequestsKnow, NothingWithoutChannel, Working
  <1>3. AnswersAccounted'
    <2> SUFFICES ASSUME NEW d \in Days PROVE AccountedOn(d)'
      BY DEF AnswersAccounted
    <2>1. Missed(d)' = Missed(d)
      BY DEF Missed
    <2> QED
      BY <2>1 DEF AnswersAccounted, AccountedOn
  <1>4. NowIsSeen' /\ TextsSeen'
    BY DEF Working, Coverage, NowIsSeen, TextsSeen
  <1>5. CoversWhatWasThere'
    BY DEF Coverage, CoversWhatWasThere
  <1> QED
    BY <1>1, <1>2, <1>3, <1>4, <1>5 DEF Types, Coverage

(***************************************************************************)
(* Whatever a page does to the posts is entered in each day's history.     *)
(***************************************************************************)
LEMMA CollectKeeps ==
    ASSUME IInv, Collect
    PROVE  IInv'
  <1> USE PeriodIsPositive, NoneIsNoId DEF IInv, Collect, table, locals, history, Returned
  <1>1. DigestInv'
    BY DEF Types, DigestInv, Days
  <1>2. HistoryTypes' /\ RequestsKnow' /\ NothingWithoutChannel'
    BY DEF Types, HistoryTypes, RequestsKnow, NothingWithoutChannel, Working
  <1>3. AnswersAccounted'
    <2> SUFFICES ASSUME NEW d \in Days PROVE AccountedOn(d)'
      BY DEF AnswersAccounted
    <2>1. Missed(d)' = Missed(d)
      BY DEF Missed
    <2> QED
      BY <2>1 DEF AnswersAccounted, AccountedOn
  <1>4. DOMAIN seen' = DOMAIN seen
        /\ \A d \in DOMAIN seen : seen'[d] = seen[d] \cup {Wanted(stored', d)}
    OBVIOUS
  <1>5. NowIsSeen' /\ TextsSeen'
    <2>1. NowIsSeen'
      <3> SUFFICES ASSUME NEW d \in DOMAIN seen' PROVE Wanted(stored', d) \in seen'[d]
        BY DEF NowIsSeen, Wanted
      <3> QED
        BY <1>4
    <2>2. TextsSeen'
      BY <1>4 DEF Working, Coverage, TextsSeen
    <2> QED
      BY <2>1, <2>2
  <1>6. CoversWhatWasThere'
    BY <1>4 DEF Coverage, CoversWhatWasThere
  <1> QED
    BY <1>1, <1>2, <1>3, <1>5, <1>6 DEF Types, Coverage

(***************************************************************************)
(* delete_channel cascades to the digests, and the requests that still     *)
(* hold the old id count for no channel.                                   *)
(***************************************************************************)
LEMMA DeleteKeeps ==
    ASSUME IInv, Delete
    PROVE  IInv'
  <1> USE PeriodIsPositive, NoneIsNoId DEF IInv, Delete, table, locals, history, Returned
  <1>1. DigestInv'
    BY DEF Types, DigestInv
  <1>2. HistoryTypes' /\ RequestsKnow' /\ NothingWithoutChannel'
    BY DEF Types, DigestInv, HistoryTypes, RequestsKnow, NothingWithoutChannel, Working
  <1>3. AnswersAccounted'
    <2> SUFFICES ASSUME NEW d \in Days PROVE AccountedOn(d)'
      BY DEF AnswersAccounted
    <2>1. repeats'[d] = 0 /\ DOMAIN digests' = {}
      BY DEF Types, DigestInv
    <2> QED
      BY <2>1 DEF AccountedOn
  <1>4. NowIsSeen' /\ TextsSeen'
    BY DEF Types, RequestsKnow, Working, NowIsSeen, TextsSeen
  <1>5. CoversWhatWasThere'
    BY DEF Types, DigestInv, CoversWhatWasThere
  <1> QED
    BY <1>1, <1>2, <1>3, <1>4, <1>5 DEF Types, Coverage

(***************************************************************************)
(* A channel added again starts with an id that no request holds.          *)
(***************************************************************************)
LEMMA AddKeeps ==
    ASSUME IInv, Add
    PROVE  IInv'
  <1> USE PeriodIsPositive, NoneIsNoId DEF IInv, Add, table, locals, history, Returned
  <1>1. DigestInv'
    BY DEF Types, DigestInv, NothingWithoutChannel
  <1>2. HistoryTypes' /\ RequestsKnow' /\ NothingWithoutChannel'
    BY DEF Types, HistoryTypes, RequestsKnow, NothingWithoutChannel, Working
  <1>3. AnswersAccounted'
    <2> SUFFICES ASSUME NEW d \in Days PROVE AccountedOn(d)'
      BY DEF AnswersAccounted
    <2>1. repeats'[d] = 0 /\ DOMAIN digests' = {}
      BY DEF Types, NothingWithoutChannel
    <2> QED
      BY <2>1 DEF AccountedOn
  <1>4. NowIsSeen' /\ TextsSeen'
    BY DEF Coverage, NowIsSeen, TextsSeen
  <1>5. CoversWhatWasThere'
    BY DEF Coverage, CoversWhatWasThere
  <1> QED
    BY <1>1, <1>2, <1>3, <1>4, <1>5 DEF Types, Coverage

(***************************************************************************)
(* A request takes its day before it has looked up anything.               *)
(***************************************************************************)
LEMMA RequestKeeps ==
    ASSUME IInv, NEW s \in Sessions, Request(s)
    PROVE  IInv'
  <1> USE PeriodIsPositive, NoneIsNoId DEF IInv, Request, table, locals, history, Returned
  <1>1. DigestInv'
    BY DEF Types, DigestInv
  <1>2. HistoryTypes' /\ RequestsKnow' /\ NothingWithoutChannel'
    BY DEF Types, HistoryTypes, RequestsKnow, NothingWithoutChannel, Working
  <1>3. AnswersAccounted'
    <2> SUFFICES ASSUME NEW d \in Days PROVE AccountedOn(d)'
      BY DEF AnswersAccounted
    <2>1. Missed(d)' = Missed(d)
      BY DEF Missed
    <2> QED
      BY <2>1 DEF AnswersAccounted, AccountedOn
  <1>4. NowIsSeen' /\ TextsSeen'
    BY DEF Working, Coverage, NowIsSeen, TextsSeen
  <1>5. CoversWhatWasThere'
    BY DEF Coverage, CoversWhatWasThere
  <1> QED
    BY <1>1, <1>2, <1>3, <1>4, <1>5 DEF Types, Coverage

(***************************************************************************)
(* get_channel returned: the first request of a day sees the posts that    *)
(* are there.                                                              *)
(***************************************************************************)
LEMMA LookUpKeeps ==
    ASSUME IInv, NEW s \in Sessions, LookUp(s)
    PROVE  IInv'
  <1> USE PeriodIsPositive, NoneIsNoId DEF IInv, LookUp, table, locals, history, Returned
  <1> DEFINE found == {Wanted(stored, day[s])}
  <1>1. /\ channel = None => Returned(s) /\ UNCHANGED history
        /\ channel # None => /\ pc' = [pc EXCEPT ![s] = "finding"]
                             /\ id' = [id EXCEPT ![s] = channel]
                             /\ DOMAIN seen' = DOMAIN seen \cup {day[s]}
                             /\ \A d \in DOMAIN seen : seen'[d] = seen[d]
                             /\ day[s] \notin DOMAIN seen => seen'[day[s]] = found
                             /\ UNCHANGED <<day, texts, repeats>>
    BY DEF Upserted
  <1>2. stored' = stored
    OBVIOUS
  <1>3. DigestInv'
    BY DEF Types, DigestInv, Days
  <1>4. HistoryTypes' /\ RequestsKnow' /\ NothingWithoutChannel'
    <2>1. HistoryTypes'
      BY <1>1 DEF Types, DigestInv, HistoryTypes
    <2>2. NothingWithoutChannel'
      BY DEF Types, NothingWithoutChannel
    <2>3. RequestsKnow'
      <3>1. CASE channel = None
        BY DEF Types, DigestInv, RequestsKnow, Working
      <3>2. CASE channel # None
        BY DEF Types, DigestInv, RequestsKnow, Working
      <3> QED
        BY <3>1, <3>2
    <2> QED
      BY <2>1, <2>2, <2>3
  <1>5. AnswersAccounted'
    <2> SUFFICES ASSUME NEW d \in Days PROVE AccountedOn(d)'
      BY DEF AnswersAccounted
    <2>1. Missed(d)' = Missed(d)
      BY DEF Types, DigestInv, Missed
    <2> QED
      BY <2>1 DEF AnswersAccounted, AccountedOn
  <1>6. NowIsSeen' /\ TextsSeen'
    <2>1. NowIsSeen'
      BY <1>1, <1>2 DEF Coverage, NowIsSeen
    <2>2. TextsSeen'
      <3> SUFFICES ASSUME NEW t \in Sessions, Working(t)', id'[t] = channel
                   PROVE  /\ day[t] \in DOMAIN seen'
                          /\ pc'[t] \in {"asking", "writing"} => texts[t] \in seen'[day[t]]
        BY DEF TextsSeen, Types, DigestInv, Working
      <3>1. CASE t = s
        BY <1>1, <3>1 DEF Types, DigestInv, Working
      <3>2. CASE t # s
        BY <1>1 DEF Types, DigestInv, Coverage, TextsSeen, Working
      <3> QED
        BY <3>1, <3>2
    <2> QED
      BY <2>1, <2>2
  <1>7. CoversWhatWasThere'
    <2>1. CASE channel = None
      BY <2>1 DEF Coverage, CoversWhatWasThere
    <2>2. CASE ~(channel = None)
      BY <1>1 DEF Coverage, CoversWhatWasThere
    <2> QED
      BY <2>1, <2>2
  <1> QED
    BY <1>3, <1>4, <1>5, <1>6, <1>7 DEF Types, Coverage

(***************************************************************************)
(* A request that misses the cache before the first write is one of those  *)
(* that may answer after it.                                               *)
(***************************************************************************)
LEMMA FindKeeps ==
    ASSUME IInv, NEW s \in Sessions, Find(s)
    PROVE  IInv'
  <1> USE PeriodIsPositive, NoneIsNoId DEF IInv, Find, table, locals, history, Returned
  <1>1. DigestInv'
    BY DEF Types, DigestInv, Days
  <1>2. HistoryTypes' /\ RequestsKnow' /\ NothingWithoutChannel'
    <2>1. HistoryTypes'
      BY DEF Types, DigestInv, HistoryTypes, Days
    <2>2. RequestsKnow'
      BY DEF Types, DigestInv, RequestsKnow, Working
    <2>3. NothingWithoutChannel'
      BY DEF Types, NothingWithoutChannel, Days
    <2> QED
      BY <2>1, <2>2, <2>3
  <1>3. AnswersAccounted'
    <2> SUFFICES ASSUME NEW d \in Days PROVE AccountedOn(d)'
      BY DEF AnswersAccounted
    <2>1. <<channel, d>> \in DOMAIN digests => Missed(d)' = Missed(d)
      BY DEF Types, DigestInv, Missed, Cached
    <2> QED
      BY <2>1 DEF AnswersAccounted, AccountedOn
  <1>4. NowIsSeen' /\ TextsSeen'
    <2>1. NowIsSeen'
      BY DEF Coverage, NowIsSeen
    <2>2. ASSUME NEW t \in Sessions, Working(t)'
          PROVE  Working(t) /\ id'[t] = id[t] /\ day'[t] = day[t] /\ texts'[t] = texts[t]
                 /\ (pc'[t] \in {"asking", "writing"} => pc[t] \in {"asking", "writing"})
      <3>1. CASE t = s
        BY <2>2 DEF Types, DigestInv, Working
      <3>2. CASE t # s
        BY <2>2 DEF Types, DigestInv, Working
      <3> QED
        BY <3>1, <3>2
    <2>3. TextsSeen'
      BY <2>2 DEF Coverage, TextsSeen
    <2> QED
      BY <2>1, <2>3
  <1>5. CoversWhatWasThere'
    BY DEF Coverage, CoversWhatWasThere
  <1> QED
    BY <1>1, <1>2, <1>3, <1>4, <1>5 DEF Types, Coverage

(***************************************************************************)
(* What a request reads later covers what was there first.                 *)
(***************************************************************************)
LEMMA ReadPostsKeeps ==
    ASSUME IInv, NEW s \in Sessions, ReadPosts(s)
    PROVE  IInv'
  <1> USE PeriodIsPositive, NoneIsNoId DEF IInv, ReadPosts, table, locals, history, Returned
  <1> DEFINE posts == IF channel = id[s] THEN stored \cap InPeriod(day[s]) ELSE {}
  <1>1. DigestInv'
    <2>1. CASE posts = {}
      <3>1. Returned(s) /\ UNCHANGED <<today, table, history>>
        BY <2>1
      <3> QED
        BY <3>1 DEF Types, DigestInv, Days
    <2>2. CASE posts # {}
      BY <2>2 DEF Types, DigestInv
    <2> QED
      BY <2>1, <2>2
  <1>2. HistoryTypes' /\ RequestsKnow' /\ NothingWithoutChannel'
    <2>1. HistoryTypes' /\ NothingWithoutChannel'
      BY DEF Types, HistoryTypes, NothingWithoutChannel
    <2>2. CASE posts = {}
      <3>1. RequestsKnow'
        BY DEF Types, DigestInv, RequestsKnow, Working
      <3> QED
        BY <2>1, <3>1
    <2>3. CASE posts # {}
      <3>1. RequestsKnow'
        BY DEF Types, DigestInv, RequestsKnow, Working
      <3> QED
        BY <2>1, <3>1
    <2> QED
      BY <2>2, <2>3
  <1>3. AnswersAccounted'
    <2> SUFFICES ASSUME NEW d \in Days PROVE AccountedOn(d)'
      BY DEF AnswersAccounted
    <2>1. Missed(d)' \subseteq Missed(d)
      BY DEF Types, DigestInv, Missed
    <2>2. /\ Cardinality(Missed(d)') \in Nat /\ Cardinality(Missed(d)) \in Nat
          /\ Cardinality(Missed(d)') <= Cardinality(Missed(d))
      BY <2>1, CountsOfRequests, FS_Subset, FS_CardinalityType
    <2> QED
      BY <2>1, <2>2, SetsOfSessions DEF AnswersAccounted, AccountedOn, Types, HistoryTypes
  <1>4. NowIsSeen' /\ TextsSeen'
    <2>1. NowIsSeen'
      BY DEF Coverage, NowIsSeen
    <2>2. id[s] = channel => posts = Wanted(stored, day[s])
      BY DEF Types, DigestInv, InPeriod, Wanted
    <2>3. TextsSeen'
      <3> SUFFICES ASSUME NEW t \in Sessions, Working(t)', id'[t] = channel
                   PROVE  /\ day'[t] \in DOMAIN seen
                          /\ pc'[t] \in {"asking", "writing"} => texts'[t] \in seen[day'[t]]
        BY DEF TextsSeen
      <3>1. CASE t = s
        <4>1. posts # {} /\ id[s] = channel /\ pc[s] = "reading" /\ day'[s] = day[s] /\ texts'[s] = posts
          BY <3>1 DEF Types, DigestInv, Working
        <4>2. day[s] \in DOMAIN seen
          BY <4>1 DEF Coverage, TextsSeen, Working
        <4> QED
          BY <2>2, <3>1, <4>1, <4>2 DEF Coverage, NowIsSeen
      <3>2. CASE t # s
        <4>1. Working(t) /\ id[t] = channel /\ day'[t] = day[t] /\ texts'[t] = texts[t] /\ pc'[t] = pc[t]
          BY <3>2 DEF Types, DigestInv, Working
        <4> QED
          BY <4>1 DEF Coverage, TextsSeen
      <3> QED
        BY <3>1, <3>2
    <2> QED
      BY <2>1, <2>3
  <1>5. CoversWhatWasThere'
    BY DEF Coverage, CoversWhatWasThere
  <1> QED
    BY <1>1, <1>2, <1>3, <1>4, <1>5 DEF Types, Coverage

(***************************************************************************)
(* An answer, whatever it is, is paid for by a request that had missed the *)
(* cache and will not be answered again.                                   *)
(***************************************************************************)
LEMMA AnswerIsAccounted ==
    ASSUME IInv, NEW s \in Sessions, pc[s] = "asking", Paid(s), UNCHANGED <<channel, digests>>,
           \A d \in Days : Missed(d)' = Missed(d) \ {s}
    PROVE  /\ repeats' \in [Days -> Nat] /\ AnswersAccounted'
           /\ channel = None => \A d \in Days : repeats'[d] = 0
  <1> USE DEF IInv, Paid
  <1>1. repeats' \in [Days -> Nat] /\ repeats \in [Days -> Nat]
    BY DEF Types, DigestInv, HistoryTypes
  <1>2. channel = None => repeats' = repeats
    BY NoneIsNoId DEF Types, DigestInv, RequestsKnow, Working
  <1>3. AnswersAccounted'
    <2> SUFFICES ASSUME NEW d \in Days PROVE AccountedOn(d)'
      BY DEF AnswersAccounted
    <2>1. CASE id[s] = channel /\ day[s] = d /\ <<channel, d>> \in DOMAIN digests
      <3>1. s \in Missed(d)
        BY <2>1 DEF Missed
      <3>2. Cardinality(Missed(d)') = Cardinality(Missed(d)) - 1
        BY <3>1, CountsOfRequests, FS_RemoveElement
      <3>3. repeats'[d] = repeats[d] + 1
        BY <1>1, <2>1
      <3> QED
        BY <1>1, <2>1, <3>2, <3>3, CountsOfRequests DEF AnswersAccounted, AccountedOn
    <2>2. CASE ~(id[s] = channel /\ day[s] = d /\ <<channel, d>> \in DOMAIN digests)
      <3>1. repeats'[d] = repeats[d]
        BY <1>1, <2>2
      <3>2. IsFiniteSet(Missed(d)') /\ Cardinality(Missed(d)') \in Nat
            /\ Cardinality(Missed(d)') <= Cardinality(Missed(d))
        BY CountsOfRequests, FS_Subset, FS_CardinalityType
      <3> QED
        BY <1>1, <3>1, <3>2, CountsOfRequests DEF AnswersAccounted, AccountedOn
    <2> QED
      BY <2>1, <2>2
  <1> QED
    BY <1>1, <1>2, <1>3 DEF Types, NothingWithoutChannel

(***************************************************************************)
(* A list of bullets takes the request on to the upsert.                   *)
(***************************************************************************)
LEMMA AnswerKeeps ==
    ASSUME IInv, NEW s \in Sessions, Answer(s)
    PROVE  IInv'
  <1> USE PeriodIsPositive, NoneIsNoId DEF IInv, Answer, table, locals, history, Returned
  <1>1. DigestInv'
    BY DEF Types, DigestInv
  <1>2. \A d \in Days : Missed(d)' = Missed(d) \ {s}
    BY DEF Types, DigestInv, Missed
  <1>3. /\ repeats' \in [Days -> Nat] /\ AnswersAccounted'
        /\ channel = None => \A d \in Days : repeats'[d] = 0
    BY <1>2, AnswerIsAccounted
  <1>4. HistoryTypes' /\ RequestsKnow' /\ NothingWithoutChannel'
    BY <1>3 DEF Types, DigestInv, HistoryTypes, RequestsKnow, NothingWithoutChannel, Working
  <1>5. NowIsSeen' /\ TextsSeen'
    BY DEF Working, Coverage, NowIsSeen, TextsSeen
  <1>6. CoversWhatWasThere'
    BY DEF Coverage, CoversWhatWasThere
  <1> QED
    BY <1>1, <1>3, <1>4, <1>5, <1>6 DEF Types, Coverage

(***************************************************************************)
(* A request that ends without a digest leaves, at whatever point, the     *)
(* others and the tables as they are; what is left to show is that the     *)
(* answers are still accounted for.                                        *)
(***************************************************************************)
LEMMA LeavingKeeps ==
    ASSUME IInv, NEW s \in Sessions, Returned(s), UNCHANGED <<today, table, seen>>,
           /\ repeats' \in [Days -> Nat] /\ AnswersAccounted'
           /\ channel = None => \A d \in Days : repeats'[d] = 0
    PROVE  IInv'
  <1> USE PeriodIsPositive, NoneIsNoId DEF IInv, table, Returned
  <1>1. DigestInv'
    BY DEF Types, DigestInv, Days
  <1>2. HistoryTypes' /\ RequestsKnow' /\ NothingWithoutChannel'
    BY DEF Types, DigestInv, HistoryTypes, RequestsKnow, NothingWithoutChannel, Working
  <1>3. NowIsSeen' /\ TextsSeen'
    BY DEF Types, DigestInv, Working, Coverage, NowIsSeen, TextsSeen
  <1>4. CoversWhatWasThere'
    BY DEF Coverage, CoversWhatWasThere
  <1> QED
    BY <1>1, <1>2, <1>3, <1>4 DEF Types, Coverage

(***************************************************************************)
(* A malformed answer is paid for, and the request leaves.                 *)
(***************************************************************************)
LEMMA MalformedKeeps ==
    ASSUME IInv, NEW s \in Sessions, Malformed(s)
    PROVE  IInv'
  <1>1. \A d \in Days : Missed(d)' = Missed(d) \ {s}
    BY NoneIsNoId DEF IInv, Types, DigestInv, Malformed, Returned, table, Missed
  <1>2. pc[s] = "asking" /\ Paid(s) /\ UNCHANGED <<channel, digests>>
    BY DEF Malformed, table
  <1>3. /\ repeats' \in [Days -> Nat] /\ AnswersAccounted'
        /\ channel = None => \A d \in Days : repeats'[d] = 0
    BY <1>1, <1>2, AnswerIsAccounted
  <1> QED
    BY <1>3, LeavingKeeps DEF Malformed

(***************************************************************************)
(* Without an answer, or with one that is lost, nothing more is paid.      *)
(***************************************************************************)
LEMMA RaiseKeeps ==
    ASSUME IInv, NEW s \in Sessions, Raise(s) \/ NoAnswer(s)
    PROVE  IInv'
  <1>1. Returned(s) /\ UNCHANGED <<today, table, seen>> /\ repeats' = repeats
    BY DEF Raise, NoAnswer, history
  <1>2. AnswersAccounted'
    <2> SUFFICES ASSUME NEW d \in Days PROVE AccountedOn(d)'
      BY DEF AnswersAccounted
    <2>1. Missed(d)' \subseteq Missed(d)
      BY <1>1 DEF IInv, Types, DigestInv, Missed, Returned, table
    <2>2. /\ Cardinality(Missed(d)') \in Nat /\ Cardinality(Missed(d)) \in Nat
          /\ Cardinality(Missed(d)') <= Cardinality(Missed(d))
      BY <2>1, CountsOfRequests, FS_Subset, FS_CardinalityType
    <2> QED
      BY <1>1, <2>2, CountsOfRequests DEF table, IInv, AnswersAccounted, AccountedOn, Types, HistoryTypes
  <1> QED
    BY <1>1, <1>2, LeavingKeeps DEF IInv, Types, HistoryTypes, NothingWithoutChannel

(***************************************************************************)
(* The upsert: the request that stores the first digest of a day is not    *)
(* one of those that will still be answered, so they are fewer than all; a *)
(* later one replaces a digest by one from the same history.               *)
(***************************************************************************)
LEMMA WriteKeeps ==
    ASSUME IInv, NEW s \in Sessions, Write(s)
    PROVE  IInv'
  <1> USE PeriodIsPositive, NoneIsNoId DEF IInv, Write, table, locals, history, Returned
  <1>1. /\ channel = id[s] => /\ DOMAIN digests' = DOMAIN digests \cup {<<id[s], day[s]>>}
                              /\ digests'[<<id[s], day[s]>>] = texts[s]
                              /\ \A k \in DOMAIN digests :
                                    k # <<id[s], day[s]>> => digests'[k] = digests[k]
        /\ channel # id[s] => digests' = digests
    BY DEF Upserted
  <1>2. DigestInv'
    <2>1. DOMAIN digests' \subseteq {channel'} \X Days
      BY <1>1 DEF Types, DigestInv
    <2>2. \A k \in DOMAIN digests' : digests'[k] \in (SUBSET Days) \ {{}}
      <3>1. texts[s] \in (SUBSET Days) \ {{}}
        <4>1. texts[s] \in SUBSET Days
          BY DEF Types, DigestInv
        <4>2. texts[s] # {}
          BY DEF Types, RequestsKnow
        <4> QED
          BY <4>1, <4>2
      <3>2. \A k \in DOMAIN digests : digests[k] \in (SUBSET Days) \ {{}}
        BY DEF Types, DigestInv
      <3> QED
        BY <1>1, <3>1, <3>2
    <2> QED
      BY <2>1, <2>2 DEF Types, DigestInv, Days
  <1>3. HistoryTypes' /\ RequestsKnow' /\ NothingWithoutChannel'
    BY DEF Types, DigestInv, HistoryTypes, RequestsKnow, NothingWithoutChannel, Working
  <1>4. AnswersAccounted'
    <2> SUFFICES ASSUME NEW d \in Days PROVE AccountedOn(d)'
      BY DEF AnswersAccounted
    <2>1. Missed(d)' = Missed(d)
      BY DEF Missed
    <2>2. CASE id[s] = channel /\ day[s] = d
      <3>1. <<channel, d>> \in DOMAIN digests'
        BY <1>1, <2>2
      <3>2. repeats[d] + Cardinality(Missed(d)) < Cardinality(Sessions)
        <4>1. CASE <<channel, d>> \in DOMAIN digests
          BY <4>1 DEF AnswersAccounted, AccountedOn
        <4>2. CASE <<channel, d>> \notin DOMAIN digests
          <5>1. repeats[d] = 0
            BY <4>2 DEF AnswersAccounted, AccountedOn
          <5>2. Missed(d) \in SUBSET Sessions /\ s \notin Missed(d)
            BY DEF Missed
          <5>3. Missed(d) # Sessions
            BY <5>2
          <5>4. Cardinality(Missed(d)) < Cardinality(Sessions)
            BY <5>2, <5>3, SessionsAreFinite, SetsOfSessions, FS_Subset, FS_CardinalityType
          <5> QED
            BY <5>1, <5>4, CountsOfRequests
        <4> QED
          BY <4>1, <4>2
      <3>3. repeats' = repeats /\ channel' = channel
        OBVIOUS
      <3> QED
        BY <2>1, <3>1, <3>2, <3>3 DEF AccountedOn
    <2>3. CASE ~(id[s] = channel /\ day[s] = d)
      <3>1. <<channel, d>> \in DOMAIN digests' <=> <<channel, d>> \in DOMAIN digests
        BY <1>1, <2>3
      <3> QED
        BY <2>1, <3>1 DEF AnswersAccounted, AccountedOn
    <2> QED
      BY <2>2, <2>3
  <1>5. NowIsSeen' /\ TextsSeen'
    BY DEF Types, DigestInv, Working, Coverage, NowIsSeen, TextsSeen
  <1>6. CoversWhatWasThere'
    <2>1. CASE channel = id[s]
      <3>1. day[s] \in DOMAIN seen /\ texts[s] \in seen[day[s]]
        BY <2>1 DEF Coverage, TextsSeen, Working
      <3> QED
        BY <1>1, <3>1 DEF Coverage, CoversWhatWasThere
    <2>2. CASE channel # id[s]
      BY <2>2 DEF Coverage, CoversWhatWasThere
    <2> QED
      BY <2>1, <2>2
  <1> QED
    BY <1>2, <1>3, <1>4, <1>5, <1>6 DEF Types, Coverage
-----------------------------------------------------------------------------
(***************************************************************************)
(* It starts with a channel without posts and nobody asking.               *)
(***************************************************************************)
LEMMA DigestStart == Init => IInv
  <1> SUFFICES ASSUME Init PROVE IInv
    OBVIOUS
  <1> USE PeriodIsPositive, NoneIsNoId DEF Init
  <1>1. Types
    BY DEF Types, DigestInv, HistoryTypes, RequestsKnow, NothingWithoutChannel, Working, Days
  <1>2. AnswersAccounted
    BY DEF AnswersAccounted, AccountedOn
  <1>3. Coverage
    BY DEF Coverage, NowIsSeen, TextsSeen, CoversWhatWasThere
  <1> QED
    BY <1>1, <1>2, <1>3 DEF IInv

(***************************************************************************)
(* Every step of a request and of what goes on beside it keeps it.         *)
(***************************************************************************)
LEMMA DigestStep == IInv /\ [DigestNext]_vars => IInv'
  <1> SUFFICES ASSUME IInv, [DigestNext]_vars PROVE IInv'
    OBVIOUS
  <1>1. CASE UNCHANGED vars
    <2>1. \A d : Missed(d)' = Missed(d)
      BY <1>1 DEF vars, table, locals, Missed
    <2> QED
      BY <1>1, <2>1 DEF vars, table, locals, history, IInv, Types, DigestInv, HistoryTypes,
         RequestsKnow, NothingWithoutChannel, Working, AnswersAccounted, AccountedOn, Coverage,
         NowIsSeen, TextsSeen, CoversWhatWasThere
  <1>2. CASE NextDay \/ Collect \/ Delete \/ Add
    BY <1>2, NextDayKeeps, CollectKeeps, DeleteKeeps, AddKeeps
  <1>3. CASE \E s \in Sessions : GetOrCreate(s)
    BY <1>3, RequestKeeps, LookUpKeeps, FindKeeps, ReadPostsKeeps, AnswerKeeps, MalformedKeeps,
       RaiseKeeps, WriteKeeps DEF GetOrCreate
  <1> QED
    BY <1>1, <1>2, <1>3 DEF DigestNext

(***************************************************************************)
(* The invariant holds throughout, whatever requests overlap a delete.     *)
(***************************************************************************)
THEOREM DigestInvariant == Spec => []IInv
  BY DigestStart, DigestStep, PTL DEF Spec

(***************************************************************************)
(* Every digest belongs to the channel in the table.                       *)
(***************************************************************************)
THEOREM DigestsBelongToTheChannel == Spec => []DigestInv
  <1>1. IInv => DigestInv
    BY DEF IInv, Types
  <1> QED
    BY <1>1, DigestInvariant, PTL

(***************************************************************************)
(* However many requests come, once a day has its digest the channel costs *)
(* at most one more answer for each other request that had missed it.      *)
(***************************************************************************)
THEOREM DigestCostIsBounded == Spec => []RepeatsBounded
  <1>1. IInv => RepeatsBounded
    <2> SUFFICES ASSUME IInv, NEW d \in Days PROVE repeats[d] < Cardinality(Sessions)
      BY DEF RepeatsBounded
    <2>1. repeats[d] \in Nat
      BY DEF IInv, Types, HistoryTypes
    <2>2. repeats[d] + Cardinality(Missed(d)) < Cardinality(Sessions) \/ repeats[d] = 0
      BY DEF IInv, AnswersAccounted, AccountedOn
    <2>3. /\ Cardinality(Missed(d)) \in Nat
          /\ Cardinality(Sessions) \in Nat /\ Cardinality(Sessions) # 0
      BY CountsOfRequests, SessionsAreFinite, FS_EmptySet
    <2> QED
      BY <2>1, <2>2, <2>3
  <1> QED
    BY <1>1, DigestInvariant, PTL

(***************************************************************************)
(* A digest is of the posts of its period as they were at one moment since *)
(* its day was first asked for, whichever of overlapping requests wrote it *)
(* and whatever was collected and edited meanwhile.                        *)
(***************************************************************************)
THEOREM DigestsCoverTheirPeriod == Spec => []CoversWhatWasThere
  <1>1. IInv => CoversWhatWasThere
    BY DEF IInv, Coverage
  <1> QED
    BY <1>1, DigestInvariant, PTL
-----------------------------------------------------------------------------
(***************************************************************************)
(* Induction over the subsets of a finite set, with a set instead of a     *)
(* predicate: inclusion is well-founded on them.                           *)
(***************************************************************************)
LEMMA SubsetInduction ==
    ASSUME NEW S, IsFiniteSet(S), NEW Good,
           \A T \in SUBSET S : (\A U \in SUBSET T : U # T => U \in Good) => T \in Good
    PROVE  S \in Good
  <1> DEFINE Bad == (SUBSET S) \ Good
             Strictly == StrictSubsetOrdering(S)
  <1>1. IsWellFoundedOn(Strictly, SUBSET S)
    BY FS_StrictSubsetOrderingWellFounded, FS_FiniteSubsetsOfFinite
  <1>2. ASSUME Bad # {} PROVE FALSE
    <2>1. PICK T \in Bad : \A U \in Bad : <<U, T>> \notin Strictly
      <3> HIDE DEF Strictly
      <3> Bad \subseteq SUBSET S
        OBVIOUS
      <3> HIDE DEF Bad
      <3> QED
        BY <1>1, <1>2, WFMin
    <2>2. ASSUME NEW U \in SUBSET T, U # T PROVE U \in Good
      <3>1. <<U, T>> \in Strictly
        BY <2>2 DEF StrictSubsetOrdering
      <3> QED
        BY <2>1, <3>1
    <2> QED
      BY <2>2
  <1> QED
    BY <1>2

(***************************************************************************)
(* The same with one element more in each step.                            *)
(***************************************************************************)
LEMMA SetInduction ==
    ASSUME NEW S, IsFiniteSet(S), NEW Good, {} \in Good,
           \A T \in SUBSET S, x \in S : x \notin T /\ T \in Good => T \cup {x} \in Good
    PROVE  S \in Good
  <1>1. ASSUME NEW T \in SUBSET S, \A U \in SUBSET T : U # T => U \in Good PROVE T \in Good
    <2>1. CASE T = {}
      BY <2>1
    <2>2. CASE T # {}
      <3>1. PICK x \in T : TRUE
        BY <2>2
      <3>2. T \ {x} \in Good /\ T = (T \ {x}) \cup {x}
        BY <1>1
      <3>3. (T \ {x}) \cup {x} \in Good
        BY <3>2
      <3> QED
        BY <3>2, <3>3
    <2> QED
      BY <2>1, <2>2
  <1> QED
    BY <1>1, SubsetInduction
-----------------------------------------------------------------------------
(***************************************************************************)
(* SumFunctionOnSet takes the elements in the order of a CHOOSE, by a      *)
(* recursive function.  There is one, and its values do not depend on the  *)
(* set it is defined on.                                                   *)
(***************************************************************************)
Picked(s) == CHOOSE x \in s : TRUE

Iterates(f, S, g) ==
    g = [s \in SUBSET S |-> IF s = {} THEN 0 ELSE f[Picked(s)] + g[s \ {Picked(s)}]]

(* Two such functions have the same value on a finite set both are defined *)
(* on.                                                                     *)
LEMMA IteratesAgree ==
    ASSUME NEW f, NEW S, NEW T, NEW g, NEW h, Iterates(f, S, g), Iterates(f, T, h),
           NEW U \in SUBSET (S \cap T), IsFiniteSet(U)
    PROVE  g[U] = h[U]
  <1> DEFINE Good == {u \in SUBSET U : g[u] = h[u]}
  <1>1. ASSUME NEW u \in SUBSET U, \A w \in SUBSET u : w # u => w \in Good PROVE u \in Good
    <2>1. CASE u = {}
      BY <2>1 DEF Iterates
    <2>2. CASE u # {}
      <3>1. Picked(u) \in u
        BY <2>2 DEF Picked
      <3>2. g[u \ {Picked(u)}] = h[u \ {Picked(u)}]
        BY <1>1, <3>1
      <3>3. g[u] = f[Picked(u)] + g[u \ {Picked(u)}] /\ h[u] = f[Picked(u)] + h[u \ {Picked(u)}]
        BY <2>2 DEF Iterates
      <3> QED
        BY <3>2, <3>3
    <2> QED
      BY <2>1, <2>2
  <1>2. U \in Good
    <2> HIDE DEF Good
    <2> QED
      BY <1>1, SubsetInduction
  <1> QED
    BY <1>2

(* If there is one, the sum is its value: the fold of the community        *)
(* modules chooses one.                                                    *)
LEMMA SumIterates ==
    ASSUME NEW f, NEW S, \E g : Iterates(f, S, g)
    PROVE  \E g : Iterates(f, S, g) /\ SumFunctionOnSet(f, S) = g[S]
  <1> DEFINE iter == CHOOSE g : Iterates(f, S, g)
  <1>1. Iterates(f, S, iter)
    OBVIOUS
  <1>2. SumFunctionOnSet(f, S) = iter[S]
    BY Zenon DEF SumFunctionOnSet, FoldFunctionOnSet, MapThenFoldSet, Iterates, Picked
  <1> QED
    BY <1>1, <1>2

(* There is one for every finite set, put together from those of its       *)
(* subsets.                                                                *)
LEMMA IteratesExist ==
    ASSUME NEW f, NEW S, IsFiniteSet(S)
    PROVE  \E g : Iterates(f, S, g)
  <1> DEFINE Good == {T \in SUBSET S : \E g : Iterates(f, T, g)}
             Total(u) == SumFunctionOnSet(f, u)
  <1>1. ASSUME NEW T \in SUBSET S, \A U \in SUBSET T : U # T => U \in Good PROVE T \in Good
    <2> DEFINE g == [s \in SUBSET T |-> IF s = {} THEN 0 ELSE f[Picked(s)] + Total(s \ {Picked(s)})]
    <2>1. ASSUME NEW u \in SUBSET T, u # T PROVE g[u] = Total(u)
      <3>1. PICK h : Iterates(f, u, h) /\ Total(u) = h[u]
        BY <1>1, <2>1, SumIterates
      <3>2. CASE u = {}
        BY <3>1, <3>2 DEF Iterates
      <3>3. CASE u # {}
        <4> DEFINE w == u \ {Picked(u)}
        <4>1. Picked(u) \in u
          BY <3>3 DEF Picked
        <4>2. w \in SUBSET T /\ w # T /\ w \in SUBSET u
          BY <2>1, <4>1
        <4>3. PICK k : Iterates(f, w, k) /\ Total(w) = k[w]
          <5> HIDE DEF w
          <5> QED
            BY <1>1, <4>2, SumIterates
        <4>4. k[w] = h[w]
          <5>1. w \in SUBSET (w \cap u) /\ IsFiniteSet(w)
            BY <4>2, FS_Subset
          <5> HIDE DEF w
          <5> QED
            BY <3>1, <4>3, <5>1, IteratesAgree
        <4>5. h[u] = f[Picked(u)] + h[w] /\ g[u] = f[Picked(u)] + Total(w)
          BY <3>1, <3>3 DEF Iterates
        <4> QED
          BY <3>1, <4>3, <4>4, <4>5
      <3> QED
        BY <3>2, <3>3
    <2>2. Iterates(f, T, g)
      <3>1. ASSUME NEW s \in SUBSET T, s # {} PROVE g[s \ {Picked(s)}] = Total(s \ {Picked(s)})
        <4>1. Picked(s) \in s
          BY <3>1 DEF Picked
        <4>2. s \ {Picked(s)} \in SUBSET T /\ s \ {Picked(s)} # T
          BY <4>1
        <4> HIDE DEF g, Total
        <4> QED
          BY <2>1, <4>2
      <3> QED
        BY <3>1 DEF Iterates
    <2> QED
      BY <2>2
  <1>2. S \in Good
    <2> HIDE DEF Good
    <2> QED
      BY <1>1, SubsetInduction
  <1> QED
    BY <1>2

(* So a sum is the element picked first and the sum of the others.         *)
LEMMA SumEquation ==
    ASSUME NEW f, NEW S, IsFiniteSet(S)
    PROVE  SumFunctionOnSet(f, S) =
              IF S = {} THEN 0 ELSE f[Picked(S)] + SumFunctionOnSet(f, S \ {Picked(S)})
  <1> DEFINE T == S \ {Picked(S)}
  <1>1. PICK g : Iterates(f, S, g) /\ SumFunctionOnSet(f, S) = g[S]
    BY IteratesExist, SumIterates
  <1>2. PICK h : Iterates(f, T, h) /\ SumFunctionOnSet(f, T) = h[T]
    BY IteratesExist, SumIterates, FS_Subset
  <1>3. g[T] = h[T]
    BY <1>1, <1>2, IteratesAgree, FS_Subset
  <1>4. g[S] = IF S = {} THEN 0 ELSE f[Picked(S)] + g[T]
    BY <1>1 DEF Iterates
  <1> QED
    BY <1>1, <1>2, <1>3, <1>4

(***************************************************************************)
(* What a sum needs: it is a number, of naturals a natural one, and any    *)
(* element can be taken out first.                                         *)
(***************************************************************************)
LEMMA SumOfNothing == ASSUME NEW f PROVE SumFunctionOnSet(f, {}) = 0
  BY SumEquation, FS_EmptySet

(* A sum of integers is an integer, and one of natural numbers a natural   *)
(* number.                                                                 *)
LEMMA SumIsNumber ==
    ASSUME NEW f, NEW S, IsFiniteSet(S)
    PROVE  /\ (\A x \in S : f[x] \in Int) => SumFunctionOnSet(f, S) \in Int
           /\ (\A x \in S : f[x] \in Nat) => SumFunctionOnSet(f, S) \in Nat
  <1>1. ASSUME NEW V, 0 \in V, \A i, j \in V : i + j \in V, \A x \in S : f[x] \in V
        PROVE  SumFunctionOnSet(f, S) \in V
    <2> DEFINE Good == {T \in SUBSET S : SumFunctionOnSet(f, T) \in V}
    <2>1. ASSUME NEW T \in SUBSET S, \A U \in SUBSET T : U # T => U \in Good PROVE T \in Good
      <3>1. CASE T = {}
        BY <1>1, <3>1, SumOfNothing
      <3>2. CASE T # {}
        <4>1. Picked(T) \in T
          BY <3>2 DEF Picked
        <4>2. SumFunctionOnSet(f, T \ {Picked(T)}) \in V
          BY <2>1, <4>1
        <4>3. SumFunctionOnSet(f, T) = f[Picked(T)] + SumFunctionOnSet(f, T \ {Picked(T)})
          BY <3>2, SumEquation, FS_Subset
        <4> QED
          BY <1>1, <4>1, <4>2, <4>3
      <3> QED
        BY <3>1, <3>2
    <2>2. S \in Good
      <3> HIDE DEF Good
      <3> QED
        BY <2>1, SubsetInduction
    <2> QED
      BY <2>2
  <1>2. ASSUME \A x \in S : f[x] \in Int PROVE SumFunctionOnSet(f, S) \in Int
    BY <1>1, <1>2, \A i, j \in Int : i + j \in Int
  <1>3. ASSUME \A x \in S : f[x] \in Nat PROVE SumFunctionOnSet(f, S) \in Nat
    BY <1>1, <1>3, \A i, j \in Nat : i + j \in Nat
  <1> QED
    BY <1>2, <1>3

(* Any element can be taken out first, not only the one that is picked.    *)
LEMMA SumWithout ==
    ASSUME NEW f, NEW S, IsFiniteSet(S), \A e \in S : f[e] \in Int, NEW x \in S
    PROVE  SumFunctionOnSet(f, S) = f[x] + SumFunctionOnSet(f, S \ {x})
  <1> DEFINE Sum(T) == SumFunctionOnSet(f, T)
             Good == {T \in SUBSET S : \A y \in T : Sum(T) = f[y] + Sum(T \ {y})}
  <1>1. ASSUME NEW T \in SUBSET S, \A U \in SUBSET T : U # T => U \in Good PROVE T \in Good
    <2> SUFFICES ASSUME NEW y \in T PROVE Sum(T) = f[y] + Sum(T \ {y})
      OBVIOUS
    <2> DEFINE p == Picked(T)
    <2>1. p \in T /\ IsFiniteSet(T)
      BY FS_Subset DEF Picked
    <2>2. Sum(T) = f[p] + Sum(T \ {p})
      BY <2>1, SumEquation
    <2> HIDE DEF p
    <2>3. CASE y = p
      BY <2>2, <2>3
    <2>4. CASE y # p
      <3> DEFINE rest == (T \ {p}) \ {y}
      <3>1. T \ {p} \in Good /\ T \ {y} \in Good
        BY <1>1, <2>1
      <3>2. Sum(T \ {p}) = f[y] + Sum(rest)
        BY <2>4, <3>1
      <3>3. Sum(T \ {y}) = f[p] + Sum(rest)
        <4>1. (T \ {y}) \ {p} = rest
          OBVIOUS
        <4> QED
          BY <2>1, <2>4, <3>1, <4>1
      <3>4. f[p] \in Int /\ f[y] \in Int /\ Sum(rest) \in Int
        <4>1. rest \in SUBSET S /\ IsFiniteSet(rest)
          BY FS_Subset
        <4> HIDE DEF rest
        <4> QED
          BY <2>1, <4>1, SumIsNumber
      <3> HIDE DEF Sum, rest
      <3> QED
        BY <2>2, <3>2, <3>3, <3>4
    <2> QED
      BY <2>3, <2>4
  <1>2. S \in Good
    <2> HIDE DEF Good
    <2> QED
      BY <1>1, SubsetInduction
  <1> QED
    BY <1>2

(***************************************************************************)
(* Renaming the elements one to one changes neither their number nor a     *)
(* sum over them.                                                          *)
(***************************************************************************)
OneToOne(b, S) == \A x, y \in S : b[x] = b[y] => x = y

(* There are as many new names as elements.                                *)
LEMMA ImageSize ==
    ASSUME NEW S, IsFiniteSet(S), NEW b, OneToOne(b, S)
    PROVE  IsFiniteSet({b[x] : x \in S}) /\ Cardinality({b[x] : x \in S}) = Cardinality(S)
  <1> DEFINE T == {b[x] : x \in S}
             c == [x \in S |-> b[x]]
  <1>1. c \in [S -> T] /\ (\A x, y \in S : c[x] = c[y] => x = y) /\ \A t \in T : \E x \in S : c[x] = t
    BY DEF OneToOne
  <1>2. c \in Bijection(S, T)
    <2> HIDE DEF c, T
    <2> QED
      BY <1>1, Fun_IsBij
  <1> QED
    BY <1>2, FS_Bijection, Fun_ExistsBij

(* A sum over the new names is the sum over the old ones.                  *)
LEMMA SumRenamed ==
    ASSUME NEW S, IsFiniteSet(S), NEW b, OneToOne(b, S),
           NEW f, NEW g, \A x \in S : f[x] \in Int /\ f[x] = g[b[x]]
    PROVE  SumFunctionOnSet(f, S) = SumFunctionOnSet(g, {b[x] : x \in S})
  <1> DEFINE Image(U) == {b[x] : x \in U}
             Good == {U \in SUBSET S : SumFunctionOnSet(f, U) = SumFunctionOnSet(g, Image(U))}
  <1>1. {} \in Good
    <2>1. Image({}) = {}
      OBVIOUS
    <2> QED
      BY <2>1, SumOfNothing
  <1>2. ASSUME NEW U \in SUBSET S, NEW x \in S, x \notin U, U \in Good PROVE U \cup {x} \in Good
    <2> DEFINE V == U \cup {x}
    <2>1. V \ {x} = U /\ Image(V) \ {b[x]} = Image(U)
      BY <1>2 DEF OneToOne
    <2>2. V \in SUBSET S /\ x \in V /\ b[x] \in Image(V) /\ IsFiniteSet(V) /\ IsFiniteSet(Image(V))
      <3>1. V \in SUBSET S /\ x \in V /\ b[x] \in Image(V)
        OBVIOUS
      <3>2. IsFiniteSet(V) /\ OneToOne(b, V)
        <4> HIDE DEF V
        <4> QED
          BY <3>1, FS_Subset DEF OneToOne
      <3> HIDE DEF V
      <3> QED
        BY <3>1, <3>2, ImageSize
    <2>3. \A y \in V : f[y] \in Int
      OBVIOUS
    <2>4. \A t \in Image(V) : g[t] \in Int
      OBVIOUS
    <2>5. SumFunctionOnSet(f, V) = f[x] + SumFunctionOnSet(f, U)
      <3> HIDE DEF V
      <3> QED
        BY <2>1, <2>2, <2>3, SumWithout
    <2>6. SumFunctionOnSet(g, Image(V)) = g[b[x]] + SumFunctionOnSet(g, Image(U))
      <3> HIDE DEF V, Image
      <3> QED
        BY <2>1, <2>2, <2>4, SumWithout
    <2>7. SumFunctionOnSet(f, V) = SumFunctionOnSet(g, Image(V))
      BY <1>2, <2>5, <2>6
    <2> QED
      BY <2>2, <2>7
  <1>3. S \in Good
    <2> HIDE DEF Good
    <2> QED
      BY <1>1, <1>2, SetInduction
  <1> QED
    BY <1>3
-----------------------------------------------------------------------------
(***************************************************************************)
(* A finite set of numbers has a greatest and a least.                     *)
(***************************************************************************)
LEMMA ExtremesExist ==
    ASSUME NEW S \in SUBSET Int, IsFiniteSet(S), S # {}
    PROVE  (\E m \in S : \A k \in S : k <= m) /\ (\E m \in S : \A k \in S : m <= k)
  <1> DEFINE Good == {T \in SUBSET S : T # {} => /\ \E m \in T : \A k \in T : k <= m
                                               /\ \E m \in T : \A k \in T : m <= k}
  <1>1. {} \in Good
    OBVIOUS
  <1>2. ASSUME NEW T \in SUBSET S, NEW x \in S, T \in Good PROVE T \cup {x} \in Good
    <2>1. CASE T = {}
      BY <2>1
    <2>2. CASE T # {}
      <3>1. PICK m \in T : \A k \in T : k <= m
        BY <1>2, <2>2
      <3>2. PICK l \in T : \A k \in T : l <= k
        BY <1>2, <2>2
      <3>3. \E g \in {m, x} : \A k \in T \cup {x} : k <= g
        <4>1. CASE x <= m
          BY <3>1, <4>1
        <4>2. CASE ~(x <= m)
          BY <3>1, <4>2
        <4> QED
          BY <4>1, <4>2
      <3>4. \E g \in {l, x} : \A k \in T \cup {x} : g <= k
        <4>1. CASE l <= x
          BY <3>2, <4>1
        <4>2. CASE ~(l <= x)
          BY <3>2, <4>2
        <4> QED
          BY <4>1, <4>2
      <3> QED
        BY <3>3, <3>4
    <2> QED
      BY <2>1, <2>2
  <1>3. S \in Good
    <2> HIDE DEF Good
    <2> QED
      BY <1>1, <1>2, SetInduction
  <1> QED
    BY <1>3

(* A subset of a finite set is finite, no larger, and as large only if it  *)
(* is the set.                                                             *)
LEMMA SubsetSize ==
    ASSUME NEW S, NEW T, S \subseteq T, IsFiniteSet(T)
    PROVE  /\ IsFiniteSet(S) /\ Cardinality(S) \in Nat /\ Cardinality(T) \in Nat
           /\ Cardinality(S) <= Cardinality(T)
           /\ Cardinality(S) = Cardinality(T) => S = T
  BY FS_Subset, FS_CardinalityType

(***************************************************************************)
(* The k-th of sorted numbers exists, there is one only, a later one is    *)
(* not smaller, and at most those behind it are greater.                   *)
(***************************************************************************)
Data(data) == IsFiniteSet(DOMAIN data) /\ data \in [DOMAIN data -> Int]

IsNth(data, k, v) ==
    /\ v \in Range(data)
    /\ Cardinality({e \in DOMAIN data : data[e] < v}) < k
    /\ Cardinality({e \in DOMAIN data : data[e] <= v}) >= k

(* The k-th of n numbers exists, for k from 1 to n: Nth chooses among what *)
(* there is.                                                               *)
LEMMA NthIsThere ==
    ASSUME NEW data, Data(data), NEW k \in 1 .. Cardinality(DOMAIN data)
    PROVE  IsNth(data, k, Nth(data, k)) /\ Nth(data, k) \in Int
  <1> DEFINE Below(v) == {e \in DOMAIN data : data[e] < v}
             UpTo(v) == {e \in DOMAIN data : data[e] <= v}
             Enough == {v \in Range(data) : Cardinality(Below(v)) < k}
  <1>1. /\ IsFiniteSet(Range(data)) /\ Range(data) \subseteq Int
        /\ \A e \in DOMAIN data : data[e] \in Range(data)
        /\ \A v \in Range(data) : \E e \in DOMAIN data : data[e] = v
    <2>1. data \in Surjection(DOMAIN data, Range(data))
      BY Fun_RangeProperties DEF Data
    <2>2. IsFiniteSet(Range(data))
      BY <2>1, FS_Surjection DEF Data
    <2> QED
      BY <2>2 DEF Range, Data
  <1>2. \A v : /\ Cardinality(Below(v)) \in Nat /\ Cardinality(UpTo(v)) \in Nat
               /\ IsFiniteSet(Below(v)) /\ IsFiniteSet(UpTo(v))
    BY SubsetSize DEF Data
  <1>3. Enough # {}
    <2>1. Range(data) # {}
      BY <1>1, FS_EmptySet
    <2>2. PICK l \in Range(data) : \A w \in Range(data) : l <= w
      BY <1>1, <2>1, ExtremesExist
    <2>3. Below(l) = {}
      BY <1>1, <2>2 DEF Data
    <2>4. Cardinality(Below(l)) = 0
      BY <2>3, FS_EmptySet
    <2> QED
      BY <2>4
  <1>4. PICK v \in Enough : \A w \in Enough : w <= v
    <2>1. Enough \in SUBSET Int /\ IsFiniteSet(Enough)
      BY <1>1, SubsetSize
    <2> HIDE DEF Enough
    <2> QED
      BY <1>3, <2>1, ExtremesExist
  <1>5. Cardinality(UpTo(v)) >= k
    <2> SUFFICES ASSUME Cardinality(UpTo(v)) < k PROVE FALSE
      BY <1>2
    <2> DEFINE Behind == {w \in Range(data) : w > v}
    <2>1. DOMAIN data # UpTo(v)
      <3>1. k <= Cardinality(DOMAIN data)
        OBVIOUS
      <3>2. Cardinality(UpTo(v)) \in Nat
        BY <1>2
      <3> HIDE DEF UpTo
      <3> QED
        BY <3>1, <3>2
    <2>2. PICK e \in DOMAIN data : data[e] > v
      BY <1>1, <2>1 DEF Data
    <2>3. Behind \in SUBSET Int /\ Behind # {} /\ IsFiniteSet(Behind)
      BY <1>1, <2>2, SubsetSize
    <2>4. PICK w \in Behind : \A j \in Behind : w <= j
      <3> HIDE DEF Behind
      <3> QED
        BY <2>3, ExtremesExist
    <2>5. \A d \in DOMAIN data : data[d] < w <=> data[d] <= v
      BY <1>1, <2>4 DEF Data
    <2>6. Below(w) = UpTo(v)
      BY <2>5
    <2>7. w \in Enough
      BY <2>6
    <2> QED
      BY <1>1, <1>4, <2>4, <2>7
  <1>6. IsNth(data, k, v)
    BY <1>5 DEF IsNth
  <1>7. Nth(data, k) = CHOOSE w : IsNth(data, k, w)
    BY DEF Nth, IsNth
  <1> QED
    BY <1>1, <1>6, <1>7 DEF IsNth

(* A later one is not smaller.                                             *)
LEMMA NthsAreSorted ==
    ASSUME NEW data, Data(data), NEW j \in Nat, NEW k \in Nat, j <= k,
           NEW v, IsNth(data, j, v), NEW w, IsNth(data, k, w)
    PROVE  v <= w
  <1>1. v \in Int /\ w \in Int
    BY DEF IsNth, Data, Range
  <1>2. ASSUME w < v PROVE FALSE
    <2>1. {e \in DOMAIN data : data[e] <= w} \subseteq {e \in DOMAIN data : data[e] < v}
      BY <1>1, <1>2 DEF Data
    <2>2. /\ IsFiniteSet({e \in DOMAIN data : data[e] < v})
          /\ Cardinality({e \in DOMAIN data : data[e] < v}) < j
          /\ Cardinality({e \in DOMAIN data : data[e] <= w}) >= k
      BY FS_Subset DEF IsNth, Data
    <2> QED
      BY <2>1, <2>2, SubsetSize
  <1> QED
    BY <1>1, <1>2

(* There is one only: whatever is k-th is what Nth returns.                *)
LEMMA NthIsUnique ==
    ASSUME NEW data, Data(data), NEW k \in 1 .. Cardinality(DOMAIN data), NEW v, IsNth(data, k, v)
    PROVE  v = Nth(data, k)
  <1>1. IsNth(data, k, Nth(data, k)) /\ k \in Nat /\ k <= k
    BY NthIsThere
  <1>2. v <= Nth(data, k) /\ Nth(data, k) <= v
    BY <1>1, NthsAreSorted
  <1>3. v \in Int /\ Nth(data, k) \in Int
    BY NthIsThere DEF IsNth, Data, Range
  <1> QED
    BY <1>2, <1>3

(* At most n - k numbers are greater than the k-th of n.                   *)
LEMMA FewAreBehind ==
    ASSUME NEW data, Data(data), NEW k \in Nat, NEW v, IsNth(data, k, v)
    PROVE  Cardinality({e \in DOMAIN data : data[e] > v}) + k <= Cardinality(DOMAIN data)
  <1> DEFINE UpTo == {e \in DOMAIN data : data[e] <= v}
             Behind == {e \in DOMAIN data : data[e] > v}
  <1>1. v \in Int
    BY DEF IsNth, Data, Range
  <1>2. Behind = DOMAIN data \ UpTo
    BY <1>1 DEF Data
  <1>3. /\ Cardinality(UpTo) \in Nat /\ Cardinality(DOMAIN data) \in Nat /\ UpTo \cap DOMAIN data = UpTo
        /\ Cardinality(UpTo) >= k
    BY SubsetSize DEF IsNth, Data
  <1>4. Cardinality(DOMAIN data \ UpTo) = Cardinality(DOMAIN data) - Cardinality(UpTo)
    <2>1. Cardinality(DOMAIN data \ UpTo) = Cardinality(DOMAIN data) - Cardinality(DOMAIN data \cap UpTo)
      BY FS_Difference DEF Data
    <2> HIDE DEF UpTo
    <2> QED
      BY <1>3, <2>1
  <1> QED
    BY <1>2, <1>3, <1>4

(***************************************************************************)
(* Sorting does not see what the numbers belong to.                        *)
(***************************************************************************)
Renames(b, data, other) ==
    /\ OneToOne(b, DOMAIN data)
    /\ DOMAIN other = {b[e] : e \in DOMAIN data}
    /\ \A e \in DOMAIN data : data[e] = other[b[e]]

(* The k-th of the numbers is the same under the new names.                *)
LEMMA NthRenamed ==
    ASSUME NEW data, Data(data), NEW other, Data(other), NEW b, Renames(b, data, other),
           NEW k \in 1 .. Cardinality(DOMAIN data)
    PROVE  /\ Nth(data, k) = Nth(other, k)
           /\ Cardinality(DOMAIN data) = Cardinality(DOMAIN other)
  <1> DEFINE v == Nth(data, k)
  <1>1. Cardinality(DOMAIN data) = Cardinality(DOMAIN other)
    BY ImageSize DEF Renames, Data
  <1>2. IsNth(data, k, v)
    BY NthIsThere
  <1>3. ASSUME NEW P \in SUBSET DOMAIN data, NEW Q \in SUBSET DOMAIN other,
               \A e \in DOMAIN data : e \in P <=> b[e] \in Q
        PROVE  Cardinality(P) = Cardinality(Q)
    <2>1. Q = {b[e] : e \in P} /\ OneToOne(b, P) /\ IsFiniteSet(P)
      BY <1>3, FS_Subset DEF Renames, OneToOne, Data
    <2> QED
      BY <2>1, ImageSize
  <1>4. IsNth(other, k, v)
    <2>1. v \in Range(other)
      BY <1>2 DEF IsNth, Renames, Range
    <2>2. /\ Cardinality({e \in DOMAIN data : data[e] < v}) = Cardinality({e \in DOMAIN other : other[e] < v})
          /\ Cardinality({e \in DOMAIN data : data[e] <= v}) = Cardinality({e \in DOMAIN other : other[e] <= v})
      <3> HIDE DEF v
      <3>1. \A e \in DOMAIN data : b[e] \in DOMAIN other /\ data[e] = other[b[e]]
        BY DEF Renames
      <3>2. Cardinality({e \in DOMAIN data : data[e] < v}) = Cardinality({e \in DOMAIN other : other[e] < v})
        BY <1>3, <3>1
      <3>3. Cardinality({e \in DOMAIN data : data[e] <= v}) = Cardinality({e \in DOMAIN other : other[e] <= v})
        BY <1>3, <3>1
      <3> QED
        BY <3>2, <3>3
    <2> QED
      BY <1>2, <2>1, <2>2 DEF IsNth
  <1> QED
    BY <1>1, <1>4, NthIsUnique
-----------------------------------------------------------------------------
(***************************************************************************)
(* What lies far out is further out than most, and whatever is as far out  *)
(* is there too; it does not matter what the deviations belong to.         *)
(***************************************************************************)
LEMMA ProductsGrow ==
    ASSUME NEW a \in Nat, NEW x \in Int, NEW y \in Int, x <= y
    PROVE  a * x <= a * y /\ a * x \in Int /\ a * y \in Int
  OBVIOUS

Middle(data) == Nth(data, Cardinality(DOMAIN data) \div 2 + 1)

(* The median lies halfway between a value not above the middle one and    *)
(* the middle one itself, and fewer than half of the values are greater    *)
(* than that.                                                              *)
LEMMA MedianIsNumber ==
    ASSUME NEW data, Data(data), Cardinality(DOMAIN data) > 0
    PROVE  /\ MedianTwice(data) \in Int /\ Middle(data) \in Int
           /\ \E low \in Range(data) : low <= Middle(data) /\ MedianTwice(data) = low + Middle(data)
           /\ 2 * Cardinality({e \in DOMAIN data : data[e] > Middle(data)}) < Cardinality(DOMAIN data)
  <1> DEFINE n == Cardinality(DOMAIN data)
             lo == (n + 1) \div 2
             hi == n \div 2 + 1
  <1>1. n \in Nat /\ n > 0 /\ Cardinality({e \in DOMAIN data : data[e] > Middle(data)}) \in Nat
    BY SubsetSize DEF Data
  <1>2. lo \in 1 .. n /\ hi \in 1 .. n /\ lo <= hi /\ 2 * (n - hi) < n /\ lo \in Nat /\ hi \in Nat
    <2> HIDE DEF n
    <2> QED
      BY <1>1
  <1> HIDE DEF lo, hi
  <1>3. /\ IsNth(data, lo, Nth(data, lo)) /\ Nth(data, lo) \in Int
        /\ IsNth(data, hi, Nth(data, hi)) /\ Nth(data, hi) \in Int
    BY <1>2, NthIsThere
  <1>4. Nth(data, lo) <= Nth(data, hi) /\ Nth(data, lo) \in Range(data)
    BY <1>2, <1>3, NthsAreSorted DEF IsNth
  <1>5. Cardinality({e \in DOMAIN data : data[e] > Nth(data, hi)}) + hi <= n
    BY <1>2, <1>3, FewAreBehind
  <1>6. MedianTwice(data) = Nth(data, lo) + Nth(data, hi) /\ Middle(data) = Nth(data, hi)
    BY DEF MedianTwice, Middle, lo, hi
  <1>7. 2 * Cardinality({e \in DOMAIN data : data[e] > Middle(data)}) < n
    <2> HIDE DEF n
    <2> QED
      BY <1>1, <1>2, <1>5, <1>6
  <1> QED
    BY <1>3, <1>4, <1>6, <1>7

Distances(deviations) ==
    /\ Data(deviations) /\ Cardinality(DOMAIN deviations) > 0
    /\ \A e \in DOMAIN deviations : deviations[e] >= 0

(* What scores at least the threshold deviates more than the middle one    *)
(* does: here the sizes of the threshold and the scales matter.            *)
LEMMA FarOutIsBeyondTheMiddle ==
    ASSUME NEW deviations, Distances(deviations), NEW e \in FarOut(deviations)
    PROVE  e \in DOMAIN deviations /\ deviations[e] > Middle(deviations) /\ Middle(deviations) >= 0
  <1> DEFINE d == deviations[e]
             total == SumFunction(deviations)
             samples == Cardinality(DOMAIN deviations)
  <1>1. PICK low \in Range(deviations) :
            low <= Middle(deviations) /\ MedianTwice(deviations) = low + Middle(deviations)
    BY MedianIsNumber DEF Distances
  <1>2. /\ e \in DOMAIN deviations /\ d \in Int /\ d >= 0 /\ low \in Int /\ low >= 0
        /\ Middle(deviations) \in Int /\ MedianTwice(deviations) \in Int
    BY MedianIsNumber DEF FarOut, Distances, Data, Range
  <1>3. total \in Nat /\ samples \in Nat
    <2>1. \A x \in DOMAIN deviations : deviations[x] \in Nat
      BY DEF Distances, Data
    <2> QED
      BY <2>1, SumIsNumber, FS_CardinalityType DEF SumFunction, Distances, Data
  <1>4. CASE MedianTwice(deviations) # 0
    <2>1. MadScale * 2 * d >= Threshold * MedianTwice(deviations)
      BY <1>4 DEF FarOut
    <2> QED
      BY <1>1, <1>2, <1>4, <2>1 DEF MadScale, Threshold
  <1>5. CASE MedianTwice(deviations) = 0
    <2>1. total # 0 /\ MeanAdScale * samples * d >= Threshold * total
      BY <1>5 DEF FarOut
    <2>2. d # 0
      <3> SUFFICES ASSUME d = 0 PROVE FALSE
        OBVIOUS
      <3>1. MeanAdScale * samples \in Int
        BY <1>3 DEF MeanAdScale
      <3>2. MeanAdScale * samples * d = 0
        BY <3>1
      <3> HIDE DEF total
      <3> QED
        BY <1>3, <2>1, <3>2 DEF Threshold
    <2> QED
      BY <1>1, <1>2, <1>5, <2>2
  <1> QED
    BY <1>1, <1>2, <1>4, <1>5

(* Therefore fewer than half are far out.                                  *)
LEMMA FarOutIsMinority ==
    ASSUME NEW deviations, Distances(deviations)
    PROVE  /\ IsFiniteSet(FarOut(deviations)) /\ Cardinality(FarOut(deviations)) \in Nat
           /\ 2 * Cardinality(FarOut(deviations)) < Cardinality(DOMAIN deviations)
  <1> DEFINE beyond == {e \in DOMAIN deviations : deviations[e] > Middle(deviations)}
  <1>1. FarOut(deviations) \subseteq beyond /\ beyond \subseteq DOMAIN deviations
    BY FarOutIsBeyondTheMiddle
  <1>2. IsFiniteSet(DOMAIN deviations) /\ 2 * Cardinality(beyond) < Cardinality(DOMAIN deviations)
    BY MedianIsNumber DEF Distances, Data
  <1> HIDE DEF beyond
  <1> QED
    BY <1>1, <1>2, SubsetSize

(* What deviates as much as something far out is far out.                  *)
LEMMA FarOutIsUpward ==
    ASSUME NEW deviations, Distances(deviations), NEW e \in FarOut(deviations),
           NEW d \in DOMAIN deviations, deviations[d] >= deviations[e]
    PROVE  d \in FarOut(deviations)
  <1> DEFINE total == SumFunction(deviations)
             samples == Cardinality(DOMAIN deviations)
  <1>1. deviations[d] \in Int /\ deviations[e] \in Int
    BY DEF FarOut, Distances, Data
  <1>2. total \in Int /\ samples \in Nat /\ MedianTwice(deviations) \in Int
    BY MedianIsNumber, SumIsNumber, FS_CardinalityType DEF SumFunction, Distances, Data
  <1>3. CASE MedianTwice(deviations) # 0
    <2>1. MadScale * 2 * deviations[e] >= Threshold * MedianTwice(deviations)
      BY <1>3 DEF FarOut
    <2>2. MadScale * 2 * deviations[d] >= Threshold * MedianTwice(deviations)
      BY <1>1, <1>2, <2>1 DEF MadScale, Threshold
    <2> QED
      BY <1>3, <2>2 DEF FarOut
  <1>4. CASE MedianTwice(deviations) = 0
    <2>1. total # 0 /\ MeanAdScale * samples * deviations[e] >= Threshold * total
      BY <1>4 DEF FarOut
    <2>2. MeanAdScale * samples \in Nat
      BY <1>2 DEF MeanAdScale
    <2>3. MeanAdScale * samples * deviations[e] <= MeanAdScale * samples * deviations[d]
      BY <1>1, <2>2, ProductsGrow
    <2>4. MeanAdScale * samples * deviations[d] >= Threshold * total
      <3>1. /\ MeanAdScale * samples * deviations[d] \in Int /\ MeanAdScale * samples * deviations[e] \in Int
            /\ Threshold * total \in Int
        BY <1>1, <1>2, <2>2, ProductsGrow DEF Threshold
      <3> QED
        BY <2>1, <2>3, <3>1
    <2> QED
      BY <1>4, <2>1, <2>4 DEF FarOut
  <1> QED
    BY <1>3, <1>4

(* The same posts under new names are far out.                             *)
LEMMA FarOutRenamed ==
    ASSUME NEW deviations, Distances(deviations), NEW other, Data(other), NEW b,
           Renames(b, deviations, other)
    PROVE  FarOut(other) = {b[e] : e \in FarOut(deviations)}
  <1> DEFINE n == Cardinality(DOMAIN deviations)
  <1>1. n \in Nat /\ n > 0 /\ (n + 1) \div 2 \in 1 .. n /\ n \div 2 + 1 \in 1 .. n
    <2>1. n \in Nat /\ n > 0
      BY FS_CardinalityType DEF Distances, Data
    <2> HIDE DEF n
    <2> QED
      BY <2>1
  <1>2. Cardinality(DOMAIN other) = n /\ MedianTwice(other) = MedianTwice(deviations)
    <2>1. /\ Cardinality(DOMAIN other) = n
          /\ Nth(other, (n + 1) \div 2) = Nth(deviations, (n + 1) \div 2)
          /\ Nth(other, n \div 2 + 1) = Nth(deviations, n \div 2 + 1)
      BY <1>1, NthRenamed DEF Distances
    <2> QED
      BY <2>1 DEF MedianTwice
  <1>3. SumFunction(other) = SumFunction(deviations)
    BY SumRenamed DEF SumFunction, Renames, Distances, Data
  <1>4. \A e \in DOMAIN deviations : b[e] \in DOMAIN other /\ deviations[e] = other[b[e]]
    BY DEF Renames
  <1>5. \A e \in DOMAIN deviations : e \in FarOut(deviations) <=> b[e] \in FarOut(other)
    BY <1>2, <1>3, <1>4 DEF FarOut
  <1>6. FarOut(other) \subseteq {b[e] : e \in DOMAIN deviations} /\ FarOut(deviations) \subseteq DOMAIN deviations
    BY DEF FarOut, Renames
  <1> QED
    BY <1>5, <1>6
-----------------------------------------------------------------------------
(***************************************************************************)
(* The parts of DetectAnomalies                                            *)
(***************************************************************************)
Twice(values) == [e \in Indexed(values) |-> 2 * e[2]]

Median(values) == MedianTwice(Twice(values)) \div 2

Deviations(values) == [e \in Indexed(values) |-> Abs(Twice(values)[e] - Median(values))]

Direction(values, e) == IF Twice(values)[e] > Median(values) THEN "spike" ELSE "drop"

(* DetectAnomalies, put together from these parts.                         *)
LEMMA WhatIsDetected ==
    ASSUME NEW values
    PROVE  DetectAnomalies(values) =
              IF Cardinality(Indexed(values)) < MinSamples THEN {}
              ELSE {<<e[1], Direction(values, e)>> : e \in FarOut(Deviations(values))}
  BY DEF DetectAnomalies, Twice, Median, Deviations, Direction

(* The posts with views, each under its index in the series, are finitely  *)
(* many pairs.                                                             *)
LEMMA IndexedIsFinite ==
    ASSUME NEW values \in Seq(Int \cup {Null})
    PROVE  /\ IsFiniteSet(Indexed(values)) /\ Cardinality(Indexed(values)) \in Nat
           /\ \A e \in Indexed(values) :
                 /\ e[1] \in DOMAIN values /\ e[1] \in Nat /\ e[2] \in Int /\ e = <<e[1], e[2]>>
                 /\ e[2] = values[e[1]]
           /\ \A i \in DOMAIN values : values[i] # Null => <<i, values[i]>> \in Indexed(values)
  <1> DEFINE present == {i \in DOMAIN values : values[i] # Null}
             b == [i \in DOMAIN values |-> <<i, values[i]>>]
  <1>1. DOMAIN values = 1 .. Len(values) /\ Len(values) \in Nat
    OBVIOUS
  <1>2. IsFiniteSet(present)
    <2>1. IsFiniteSet(1 .. Len(values))
      BY <1>1, FS_Interval
    <2> QED
      BY <1>1, <2>1, SubsetSize
  <1>3. OneToOne(b, present) /\ Indexed(values) = {b[i] : i \in present}
    BY DEF OneToOne, Indexed
  <1>4. IsFiniteSet(Indexed(values))
    <2> HIDE DEF present, b
    <2> QED
      BY <1>2, <1>3, ImageSize
  <1>5. Cardinality(Indexed(values)) \in Nat
    BY <1>4, FS_CardinalityType
  <1>6. ASSUME NEW e \in Indexed(values)
        PROVE  /\ e[1] \in DOMAIN values /\ e[1] \in Nat /\ e[2] \in Int /\ e = <<e[1], e[2]>>
               /\ e[2] = values[e[1]]
    <2>1. PICK i \in present : e = <<i, values[i]>>
      BY DEF Indexed
    <2> QED
      BY <1>1, <2>1
  <1> QED
    BY <1>4, <1>5, <1>6 DEF Indexed

(* With enough of them the median is a number and the deviations are       *)
(* distances from it.                                                      *)
LEMMA AnomalyData ==
    ASSUME NEW values \in Seq(Int \cup {Null}), ~(Cardinality(Indexed(values)) < MinSamples)
    PROVE  /\ Data(Twice(values)) /\ Cardinality(DOMAIN Twice(values)) > 0
           /\ Median(values) \in Int /\ Distances(Deviations(values))
           /\ DOMAIN Deviations(values) = Indexed(values) /\ DOMAIN Twice(values) = Indexed(values)
  <1>1. Cardinality(Indexed(values)) > 0
    BY SizesArePositive, IndexedIsFinite
  <1>2. Data(Twice(values)) /\ DOMAIN Twice(values) = Indexed(values)
    BY IndexedIsFinite DEF Data, Twice
  <1>3. Median(values) \in Int
    <2>1. MedianTwice(Twice(values)) \in Int
      BY <1>1, <1>2, MedianIsNumber
    <2> QED
      BY <2>1 DEF Median
  <1>4. \A e \in Indexed(values) : Twice(values)[e] \in Int
    BY <1>2 DEF Data
  <1>5. Distances(Deviations(values)) /\ DOMAIN Deviations(values) = Indexed(values)
    BY <1>1, <1>3, <1>4, IndexedIsFinite DEF Distances, Data, Deviations, Abs
  <1> QED
    BY <1>1, <1>2, <1>3, <1>5

(***************************************************************************)
(* An anomaly is a post with views, far out on its side.                   *)
(***************************************************************************)
LEMMA AnomalyIsFarOut ==
    ASSUME NEW values \in Seq(Int \cup {Null}), NEW a \in DetectAnomalies(values)
    PROVE  /\ ~(Cardinality(Indexed(values)) < MinSamples)
           /\ \E e \in FarOut(Deviations(values)) :
                 /\ e \in Indexed(values) /\ a = <<e[1], Direction(values, e)>>
                 /\ Twice(values)[e] # Median(values)
  <1>1. /\ ~(Cardinality(Indexed(values)) < MinSamples)
        /\ \E e \in FarOut(Deviations(values)) : a = <<e[1], Direction(values, e)>>
    BY WhatIsDetected
  <1>2. ASSUME NEW e \in FarOut(Deviations(values))
        PROVE  e \in Indexed(values) /\ Twice(values)[e] # Median(values)
    <2>1. /\ Distances(Deviations(values)) /\ DOMAIN Deviations(values) = Indexed(values)
          /\ Median(values) \in Int
      BY <1>1, AnomalyData
    <2>2. e \in Indexed(values) /\ Deviations(values)[e] > 0
      <3>1. /\ e \in DOMAIN Deviations(values) /\ Deviations(values)[e] > Middle(Deviations(values))
            /\ Middle(Deviations(values)) >= 0
        BY <2>1, FarOutIsBeyondTheMiddle
      <3>2. Deviations(values)[e] \in Int /\ Middle(Deviations(values)) \in Int
        BY <2>1, <3>1, MedianIsNumber DEF Distances, Data
      <3> QED
        BY <2>1, <3>1, <3>2
    <2> QED
      BY <2>1, <2>2 DEF Deviations, Abs
  <1> QED
    BY <1>1, <1>2

(* FewAnomalies holds of every series of views.                            *)
LEMMA FewAreAnomalies ==
    ASSUME NEW values \in Seq(Int \cup {Null}) PROVE FewAnomalies(values)
  <1> DEFINE far == FarOut(Deviations(values))
             b == [e \in far |-> <<e[1], Direction(values, e)>>]
  <1> SUFFICES ASSUME DetectAnomalies(values) # {}
               PROVE  2 * Cardinality(DetectAnomalies(values)) < Cardinality(Indexed(values))
    BY DEF FewAnomalies
  <1>1. ~(Cardinality(Indexed(values)) < MinSamples)
    BY AnomalyIsFarOut
  <1>2. /\ IsFiniteSet(far) /\ 2 * Cardinality(far) < Cardinality(Indexed(values))
        /\ far \subseteq Indexed(values)
    BY <1>1, AnomalyData, FarOutIsMinority DEF FarOut
  <1>3. DetectAnomalies(values) = {b[e] : e \in far}
    BY <1>1, WhatIsDetected
  <1>4. OneToOne(b, far)
    BY <1>2, IndexedIsFinite DEF OneToOne
  <1>5. Cardinality({b[e] : e \in far}) = Cardinality(far)
    <2> HIDE DEF far, b
    <2> QED
      BY <1>2, <1>4, ImageSize
  <1> HIDE DEF far, b
  <1> QED
    BY <1>2, <1>3, <1>5

(* OutermostFirst holds of every series of views.                          *)
LEMMA FurtherOutIsAnomaly ==
    ASSUME NEW values \in Seq(Int \cup {Null}) PROVE OutermostFirst(values)
  <1> SUFFICES ASSUME NEW a \in DetectAnomalies(values), NEW i \in DOMAIN values, values[i] # Null,
                      IF a[2] = "spike" THEN values[i] >= values[a[1]] ELSE values[i] <= values[a[1]]
               PROVE  <<i, a[2]>> \in DetectAnomalies(values)
    BY DEF OutermostFirst
  <1> DEFINE d == <<i, values[i]>>
  <1>1. ~(Cardinality(Indexed(values)) < MinSamples)
    BY AnomalyIsFarOut
  <1>2. PICK e \in FarOut(Deviations(values)) :
            /\ e \in Indexed(values) /\ a = <<e[1], Direction(values, e)>>
            /\ Twice(values)[e] # Median(values)
    BY AnomalyIsFarOut
  <1>3. /\ d \in Indexed(values) /\ values[i] \in Int /\ values[e[1]] \in Int
        /\ Twice(values)[d] = 2 * values[i] /\ Twice(values)[e] = 2 * values[e[1]]
    BY <1>2, IndexedIsFinite DEF Twice
  <1>4. /\ Distances(Deviations(values)) /\ DOMAIN Deviations(values) = Indexed(values)
        /\ Median(values) \in Int
    BY <1>1, AnomalyData
  <1> HIDE DEF d
  <1>5. a[1] = e[1] /\ a[2] = Direction(values, e)
    BY <1>2
  <1>6. Deviations(values)[d] >= Deviations(values)[e] /\ Direction(values, d) = a[2]
    <2>1. /\ Deviations(values)[d] = Abs(2 * values[i] - Median(values))
          /\ Deviations(values)[e] = Abs(2 * values[e[1]] - Median(values))
      BY <1>2, <1>3 DEF Deviations
    <2>2. CASE 2 * values[e[1]] > Median(values)
      <3>1. a[2] = "spike" /\ values[i] >= values[e[1]]
        BY <1>3, <1>5, <2>2 DEF Direction
      <3>2. 2 * values[i] >= 2 * values[e[1]] /\ 2 * values[e[1]] > Median(values)
        BY <1>3, <1>4, <2>2, <3>1
      <3>3. Abs(2 * values[i] - Median(values)) >= Abs(2 * values[e[1]] - Median(values))
        BY <1>3, <1>4, <3>2 DEF Abs
      <3>4. Deviations(values)[d] >= Deviations(values)[e]
        BY <2>1, <3>3
      <3> QED
        BY <1>3, <1>4, <3>1, <3>2, <3>4 DEF Direction
    <2>3. CASE ~(2 * values[e[1]] > Median(values))
      <3>1. a[2] = "drop" /\ values[i] <= values[e[1]]
        BY <1>3, <1>5, <2>3 DEF Direction
      <3>2. 2 * values[i] <= 2 * values[e[1]] /\ 2 * values[e[1]] <= Median(values)
        BY <1>3, <1>4, <2>3, <3>1
      <3>3. Abs(2 * values[i] - Median(values)) >= Abs(2 * values[e[1]] - Median(values))
        BY <1>3, <1>4, <3>2 DEF Abs
      <3>4. Deviations(values)[d] >= Deviations(values)[e]
        BY <2>1, <3>3
      <3> QED
        BY <1>3, <1>4, <3>1, <3>2, <3>4 DEF Direction
    <2> QED
      BY <2>2, <2>3
  <1>7. d \in FarOut(Deviations(values))
    BY <1>3, <1>4, <1>6, FarOutIsUpward
  <1> QED
    BY <1>1, <1>6, <1>7, WhatIsDetected DEF d

(***************************************************************************)
(* In another order, or with others that have no views, the same posts are *)
(* anomalies: m says where each of those with views has moved to.          *)
(***************************************************************************)
Moves(m, values, others) ==
    /\ OneToOne(m, {i \in DOMAIN values : values[i] # Null})
    /\ Indexed(others) = {<<m[e[1]], e[2]>> : e \in Indexed(values)}

Moved(m, anomalies) == {<<m[a[1]], a[2]>> : a \in anomalies}

(* The anomalies are the same, each where its post has moved to.           *)
LEMMA AnomaliesMove ==
    ASSUME NEW values \in Seq(Int \cup {Null}), NEW others \in Seq(Int \cup {Null}),
           NEW m, Moves(m, values, others)
    PROVE  DetectAnomalies(others) = Moved(m, DetectAnomalies(values))
  <1> DEFINE b == [e \in Indexed(values) |-> <<m[e[1]], e[2]>>]
  <1>1. OneToOne(b, Indexed(values))
    <2>1. \A e \in Indexed(values) : e[1] \in DOMAIN values /\ values[e[1]] # Null /\ e = <<e[1], e[2]>>
      BY IndexedIsFinite, NullIsNoNumber
    <2> QED
      BY <2>1 DEF OneToOne, Moves
  <1>2. Indexed(others) = {b[e] : e \in Indexed(values)}
    BY DEF Moves
  <1>3. \A e \in Indexed(values) : b[e][1] = m[e[1]] /\ b[e][2] = e[2]
    OBVIOUS
  <1>4. Cardinality(Indexed(others)) = Cardinality(Indexed(values))
    <2> HIDE DEF b
    <2> QED
      BY <1>1, <1>2, IndexedIsFinite, ImageSize
  <1> HIDE DEF b
  <1>5. CASE Cardinality(Indexed(values)) < MinSamples
    BY <1>4, <1>5, WhatIsDetected DEF Moved
  <1>6. CASE ~(Cardinality(Indexed(values)) < MinSamples)
    <2>1. /\ Data(Twice(values)) /\ Cardinality(DOMAIN Twice(values)) > 0 /\ Data(Twice(others))
          /\ Distances(Deviations(values)) /\ Distances(Deviations(others))
          /\ DOMAIN Deviations(values) = Indexed(values) /\ DOMAIN Twice(values) = Indexed(values)
          /\ DOMAIN Deviations(others) = Indexed(others) /\ DOMAIN Twice(others) = Indexed(others)
      BY <1>4, <1>6, AnomalyData
    <2>2. Renames(b, Twice(values), Twice(others))
      BY <1>1, <1>2, <1>3, <2>1 DEF Renames, Twice
    <2>3. Median(others) = Median(values)
      <3> DEFINE n == Cardinality(DOMAIN Twice(values))
      <3>1. n \in Nat /\ n > 0
        BY <2>1, FS_CardinalityType DEF Data
      <3>2. (n + 1) \div 2 \in 1 .. n /\ n \div 2 + 1 \in 1 .. n
        <4> HIDE DEF n
        <4> QED
          BY <3>1
      <3>3. /\ Cardinality(DOMAIN Twice(others)) = n
            /\ Nth(Twice(others), (n + 1) \div 2) = Nth(Twice(values), (n + 1) \div 2)
            /\ Nth(Twice(others), n \div 2 + 1) = Nth(Twice(values), n \div 2 + 1)
        BY <2>1, <2>2, <3>2, NthRenamed
      <3> QED
        BY <3>3 DEF Median, MedianTwice
    <2>4. \A e \in Indexed(values) : b[e] \in Indexed(others) /\ Twice(others)[b[e]] = Twice(values)[e]
      BY <1>2, <2>1, <2>2 DEF Renames
    <2>5. Renames(b, Deviations(values), Deviations(others))
      BY <1>1, <1>2, <2>1, <2>3, <2>4 DEF Renames, Deviations
    <2>6. FarOut(Deviations(others)) = {b[e] : e \in FarOut(Deviations(values))}
      BY <2>1, <2>5, FarOutRenamed DEF Distances
    <2>7. \A e \in FarOut(Deviations(values)) :
              e \in Indexed(values) /\ Direction(others, b[e]) = Direction(values, e)
      BY <2>1, <2>3, <2>4 DEF Direction, FarOut
    <2>8. DetectAnomalies(others) = {<<f[1], Direction(others, f)>> : f \in FarOut(Deviations(others))}
      BY <1>4, <1>6, WhatIsDetected
    <2>9. DetectAnomalies(values) = {<<e[1], Direction(values, e)>> : e \in FarOut(Deviations(values))}
      BY <1>6, WhatIsDetected
    <2>10. DetectAnomalies(others) = {<<m[e[1]], Direction(values, e)>> : e \in FarOut(Deviations(values))}
      BY <1>3, <2>6, <2>7, <2>8
    <2> DEFINE a(e) == <<e[1], Direction(values, e)>>
               moved(x) == <<m[x[1]], x[2]>>
    <2>11. \A e : moved(a(e)) = <<m[e[1]], Direction(values, e)>>
      OBVIOUS
    <2>12. DetectAnomalies(values) = {a(e) : e \in FarOut(Deviations(values))}
      BY <2>9
    <2>13. DetectAnomalies(others) = {moved(a(e)) : e \in FarOut(Deviations(values))}
      BY <2>10, <2>11
    <2>14. DetectAnomalies(others) = {moved(x) : x \in DetectAnomalies(values)}
      <3> HIDE DEF a, moved
      <3> QED
        BY <2>12, <2>13
    <2> QED
      BY <2>14 DEF Moved
  <1> QED
    BY <1>5, <1>6

(***************************************************************************)
(* Without a missing value the rest is the same, one place further ahead.  *)
(***************************************************************************)
LEMMA MissingAreIgnored ==
    ASSUME NEW values \in Seq(Int \cup {Null}) PROVE MissingIgnored(values)
  <1> SUFFICES ASSUME NEW i \in DOMAIN values, values[i] = Null
               PROVE  DetectAnomalies(RemoveAt(values, i))
                        = {<<IF a[1] < i THEN a[1] ELSE a[1] - 1, a[2]>> : a \in DetectAnomalies(values)}
    BY DEF MissingIgnored
  <1> DEFINE rest == RemoveAt(values, i)
             up(k) == IF k < i THEN k ELSE k - 1
             m == [k \in DOMAIN values |-> up(k)]
             b(e) == <<m[e[1]], e[2]>>
  <1>1. /\ rest \in Seq(Int \cup {Null}) /\ Len(rest) = Len(values) - 1
        /\ Len(values) \in Nat /\ i \in 1 .. Len(values) /\ DOMAIN values = 1 .. Len(values)
        /\ DOMAIN rest = 1 .. Len(values) - 1
        /\ \A k \in 1 .. Len(values) - 1 : rest[k] = IF k < i THEN values[k] ELSE values[k + 1]
    <2> DEFINE s == SubSeq(values, 1, i - 1)
               t == SubSeq(values, i + 1, Len(values))
    <2>1. Len(values) \in Nat /\ i \in 1 .. Len(values) /\ DOMAIN values = 1 .. Len(values)
      OBVIOUS
    <2>2. s \in Seq(Int \cup {Null}) /\ Len(s) = i - 1 /\ \A k \in 1 .. i - 1 : s[k] = values[k]
      BY <2>1
    <2>3. /\ t \in Seq(Int \cup {Null}) /\ Len(t) = Len(values) - i
          /\ \A k \in 1 .. Len(values) - i : t[k] = values[k + i]
      BY <2>1
    <2>4. rest = s \o t
      BY DEF RemoveAt
    <2> HIDE DEF s, t, rest
    <2>5. rest \in Seq(Int \cup {Null}) /\ Len(rest) = Len(values) - 1
      <3>1. s \o t \in Seq(Int \cup {Null}) /\ Len(s \o t) = Len(s) + Len(t)
        BY <2>2, <2>3, ConcatProperties
      <3> QED
        BY <2>1, <2>2, <2>3, <2>4, <3>1
    <2>6. ASSUME NEW k \in 1 .. Len(values) - 1
          PROVE  rest[k] = IF k < i THEN values[k] ELSE values[k + 1]
      <3>1. CASE k < i
        BY <2>1, <2>2, <2>3, <2>4, <3>1
      <3>2. CASE ~(k < i)
        <4>1. k - (i - 1) \in 1 .. Len(values) - i
          BY <2>1, <3>2
        <4>2. rest[k] = t[k - (i - 1)]
          <5>1. /\ i - 1 \in Nat /\ k \in Nat /\ k > i - 1 /\ k <= (i - 1) + (Len(values) - i)
            BY <2>1, <3>2
          <5>2. \A j \in 1 .. Len(s) + Len(t) : (s \o t)[j] = IF j <= Len(s) THEN s[j] ELSE t[j - Len(s)]
            BY <2>2, <2>3, ConcatProperties
          <5>3. k \in 1 .. Len(s) + Len(t) /\ ~(k <= Len(s))
            BY <2>1, <2>2, <2>3, <5>1
          <5>4. (s \o t)[k] = t[k - Len(s)]
            BY <5>2, <5>3
          <5> QED
            BY <2>2, <2>4, <5>4
        <4>3. t[k - (i - 1)] = values[(k - (i - 1)) + i] /\ (k - (i - 1)) + i = k + 1
          BY <2>1, <2>3, <4>1
        <4> QED
          BY <3>2, <4>2, <4>3
      <3> QED
        BY <3>1, <3>2
    <2> QED
      BY <2>1, <2>5, <2>6
  <1>2. OneToOne(m, {k \in DOMAIN values : values[k] # Null})
    <2> SUFFICES ASSUME NEW j \in DOMAIN values, NEW k \in DOMAIN values, j # i, k # i, up(j) = up(k)
                 PROVE  j = k
      BY DEF OneToOne
    <2> QED
      BY <1>1
  <1>3. Indexed(rest) = {b(e) : e \in Indexed(values)}
    <2>1. ASSUME NEW e \in Indexed(values) PROVE b(e) \in Indexed(rest)
      <3>1. e[1] \in 1 .. Len(values) /\ e[2] = values[e[1]] /\ e[2] # Null /\ e[1] # i
        BY <1>1, IndexedIsFinite, NullIsNoNumber
      <3>2. up(e[1]) \in DOMAIN rest /\ rest[up(e[1])] = e[2] /\ m[e[1]] = up(e[1])
        <4>1. up(e[1]) \in DOMAIN rest /\ rest[up(e[1])] = e[2]
          BY <1>1, <3>1
        <4>2. m[e[1]] = up(e[1])
          BY <1>1, <3>1
        <4> QED
          BY <4>1, <4>2
      <3> QED
        BY <3>1, <3>2 DEF Indexed
    <2>2. ASSUME NEW f \in Indexed(rest) PROVE \E e \in Indexed(values) : f = b(e)
      <3>1. f = <<f[1], f[2]>> /\ f[1] \in 1 .. Len(values) - 1 /\ f[2] = rest[f[1]] /\ f[2] # Null
        BY <1>1, IndexedIsFinite, NullIsNoNumber
      <3> DEFINE j == IF f[1] < i THEN f[1] ELSE f[1] + 1
      <3>2. j \in DOMAIN values /\ values[j] = f[2] /\ m[j] = f[1]
        BY <1>1, <3>1
      <3>3. <<j, values[j]>> \in Indexed(values)
        BY <3>1, <3>2, IndexedIsFinite
      <3> QED
        BY <3>1, <3>2, <3>3
    <2> QED
      BY <2>1, <2>2
  <1>4. Moves(m, values, rest)
    BY <1>2, <1>3 DEF Moves
  <1>5. DetectAnomalies(rest) = Moved(m, DetectAnomalies(values))
    <2> HIDE DEF m, rest
    <2> QED
      BY <1>1, <1>4, AnomaliesMove
  <1>6. \A a \in DetectAnomalies(values) : a[1] \in DOMAIN values
    BY AnomalyIsFarOut, IndexedIsFinite
  <1> QED
    BY <1>5, <1>6 DEF Moved

(* Together: no series of the model is misjudged.                          *)
LEMMA NoneMisjudged == Misjudged = {}
  BY SeriesAreViews, FewAreAnomalies, FurtherOutIsAnomaly, MissingAreIgnored DEF Misjudged
-----------------------------------------------------------------------------
(***************************************************************************)
(* In a finite set with a total order as many come before an element as    *)
(* its place says, and each place is taken by one.                         *)
(***************************************************************************)
StrictOrder(R, W) ==
    /\ \A x \in W : <<x, x>> \notin R
    /\ \A x, y \in W : x # y => <<x, y>> \in R \/ <<y, x>> \in R
    /\ \A x, y, z \in W : <<x, y>> \in R /\ <<y, z>> \in R => <<x, z>> \in R

Ahead(R, W, x) == {y \in W : <<y, x>> \in R}

(* The places are 0, 1 and so on, one for each element.                    *)
LEMMA PlacesAreTaken ==
    ASSUME NEW W, IsFiniteSet(W), NEW R, StrictOrder(R, W)
    PROVE  /\ \A x \in W : Cardinality(Ahead(R, W, x)) \in 0 .. Cardinality(W) - 1
           /\ \A x, y \in W : Cardinality(Ahead(R, W, x)) = Cardinality(Ahead(R, W, y)) => x = y
           /\ \A k \in 0 .. Cardinality(W) - 1 : \E x \in W : Cardinality(Ahead(R, W, x)) = k
  <1> DEFINE n == Cardinality(W)
             place == [x \in W |-> Cardinality(Ahead(R, W, x))]
  <1>1. n \in Nat
    BY FS_CardinalityType
  <1>2. ASSUME NEW x \in W PROVE Cardinality(Ahead(R, W, x)) \in 0 .. n - 1
    <2>1. Ahead(R, W, x) \subseteq W /\ Ahead(R, W, x) # W
      BY DEF Ahead, StrictOrder
    <2>2. /\ Cardinality(Ahead(R, W, x)) \in Nat /\ Cardinality(Ahead(R, W, x)) <= n
          /\ Cardinality(Ahead(R, W, x)) # n
      BY <2>1, SubsetSize
    <2> HIDE DEF n
    <2> QED
      BY <1>1, <2>2
  <1>3. ASSUME NEW x \in W, NEW y \in W, <<x, y>> \in R
        PROVE  Cardinality(Ahead(R, W, x)) # Cardinality(Ahead(R, W, y))
    <2>1. /\ Ahead(R, W, x) \subseteq Ahead(R, W, y) /\ Ahead(R, W, x) # Ahead(R, W, y)
          /\ Ahead(R, W, y) \subseteq W
      BY <1>3 DEF Ahead, StrictOrder
    <2> QED
      BY <2>1, SubsetSize
  <1>4. \A x, y \in W : Cardinality(Ahead(R, W, x)) = Cardinality(Ahead(R, W, y)) => x = y
    BY <1>3 DEF StrictOrder
  <1>5. place \in Injection(W, 0 .. n - 1)
    <2>1. place \in [W -> 0 .. n - 1] /\ \A x, y \in W : place[x] = place[y] => x = y
      BY <1>2, <1>4
    <2> HIDE DEF place, n
    <2> QED
      BY <2>1, Fun_IsInj
  <1>6. place \in Surjection(W, 0 .. n - 1)
    <2>1. IsFiniteSet(0 .. n - 1) /\ Cardinality(0 .. n - 1) = n
      <3> HIDE DEF n
      <3>1. IsFiniteSet(0 .. n - 1) /\ Cardinality(0 .. n - 1) = IF 0 > n - 1 THEN 0 ELSE (n - 1) - 0 + 1
        BY <1>1, FS_Interval
      <3> QED
        BY <1>1, <3>1
    <2> HIDE DEF place
    <2> QED
      BY <1>5, <2>1, FS_Injection
  <1>7. \A k \in 0 .. n - 1 : \E x \in W : place[x] = k
    <2> DEFINE T == 0 .. n - 1
    <2>1. place \in Surjection(W, T)
      BY <1>6
    <2>2. \A k \in T : \E x \in W : place[x] = k
      <3> HIDE DEF place, T
      <3> QED
        BY <2>1, Fun_SurjectionProperties
    <2> QED
      BY <2>2
  <1> QED
    BY <1>2, <1>4, <1>7

(***************************************************************************)
(* The rows of a SELECT: each row once, in the order of their dates        *)
(***************************************************************************)
Rows == [id : Int, posted : Int \cup {Null}, views : Int \cup {Null}, text : BOOLEAN]

IsTable(rows) ==
    /\ IsFiniteSet(rows) /\ rows \subseteq Rows
    /\ \A r, s \in rows : r.id = s.id => r = s

(* A query puts the posts of one date in an order of its own.              *)
OrdersTies(tie, rows) ==
    /\ \A r \in rows : tie[r.id] \in Int
    /\ \A r, s \in rows : tie[r.id] = tie[s.id] => r = s

(* ORDER BY returns each row of the table once, and the window keeps those *)
(* with few before them.                                                   *)
LEMMA EachRowOnce ==
    ASSUME NEW rows, IsTable(rows), NEW tie, OrdersTies(tie, rows)
    PROVE  LET window == AnomalyWindow(rows, tie) IN
           /\ window \in Seq(rows)
           /\ \A i, j \in DOMAIN window : window[i] = window[j] => i = j
           /\ \A r \in rows : (\E i \in DOMAIN window : window[i] = r)
                                <=> Cardinality({s \in rows : Before(s, r, tie)}) < Window
  <1> DEFINE R == {p \in rows \X rows : Before(p[1], p[2], tie)}
             n == Cardinality(rows)
             posts == AllPosts(rows, tie)
             window == AnomalyWindow(rows, tie)
  <1>1. StrictOrder(R, rows)
    <2>1. /\ \A r \in rows : tie[r.id] \in Int /\ r.posted \in Int \cup {Null}
          /\ \A r, s \in rows : tie[r.id] = tie[s.id] => r = s
      BY DEF IsTable, Rows, OrdersTies
    <2>2. \A r \in rows : ~Before(r, r, tie)
      BY <2>1 DEF Before, Later
    <2>3. \A r, s \in rows : r # s => Before(r, s, tie) \/ Before(s, r, tie)
      BY <2>1 DEF Before, Later
    <2>4. \A r, s, t \in rows : Before(r, s, tie) /\ Before(s, t, tie) => Before(r, t, tie)
      BY <2>1 DEF Before, Later
    <2> QED
      BY <2>2, <2>3, <2>4 DEF StrictOrder
  <1>2. \A r \in rows : {s \in rows : Before(s, r, tie)} = Ahead(R, rows, r)
    BY DEF Ahead
  <1>3. n \in Nat
    BY FS_CardinalityType DEF IsTable
  <1>4. ASSUME NEW k \in 1 .. n
        PROVE  posts[k] \in rows /\ Cardinality(Ahead(R, rows, posts[k])) = k - 1
    <2>1. \E r \in rows : Cardinality(Ahead(R, rows, r)) = k - 1
      <3>1. k - 1 \in 0 .. n - 1
        BY <1>3
      <3> HIDE DEF R
      <3> QED
        BY <1>1, <3>1, PlacesAreTaken DEF IsTable
    <2>2. posts[k] = CHOOSE r \in rows : Cardinality({s \in rows : Before(s, r, tie)}) = k - 1
      BY DEF AllPosts
    <2> HIDE DEF posts, R
    <2> QED
      BY <1>2, <2>1, <2>2
  <1>5. posts \in Seq(rows) /\ Len(posts) = n
    <2> DEFINE choice(k) == CHOOSE r \in rows : Cardinality({s \in rows : Before(s, r, tie)}) = k - 1
    <2>1. posts = [k \in 1 .. n |-> choice(k)]
      BY DEF AllPosts
    <2>2. \A k \in 1 .. n : choice(k) \in rows
      <3> HIDE DEF choice, n, R
      <3>1. \A k \in 1 .. n : posts[k] = choice(k)
        BY <2>1
      <3> QED
        BY <1>4, <3>1
    <2> HIDE DEF posts, n, R, choice
    <2> QED
      BY <1>3, <2>1, <2>2
  <1>6. /\ window \in Seq(rows) /\ Len(window) <= n
        /\ \A i \in DOMAIN window : window[i] = posts[i] /\ i \in 1 .. n
    <2> DEFINE m == IF Len(posts) < Window THEN Len(posts) ELSE Window
    <2>1. m \in Nat /\ m <= n /\ Window \in Nat
      BY <1>3, <1>5, SizesArePositive
    <2>2. window = SubSeq(posts, 1, m)
      BY DEF AnomalyWindow
    <2> HIDE DEF posts, n, m, window
    <2> QED
      BY <1>3, <1>5, <2>1, <2>2
  <1>7. ASSUME NEW i \in DOMAIN window, NEW j \in DOMAIN window, window[i] = window[j] PROVE i = j
    <2>1. posts[i] = posts[j] /\ i \in 1 .. n /\ j \in 1 .. n
      BY <1>6, <1>7
    <2> HIDE DEF posts, n, R, window
    <2> QED
      BY <1>3, <1>4, <2>1
  <1>8. DOMAIN window = {i \in 1 .. n : i <= Window}
    <2> DEFINE m == IF Len(posts) < Window THEN Len(posts) ELSE Window
    <2>1. m \in Nat /\ Window \in Nat /\ window = SubSeq(posts, 1, m)
      BY <1>3, <1>5, SizesArePositive DEF AnomalyWindow
    <2>2. m <= n /\ \A i \in 1 .. n : i <= m <=> i <= Window
      <3> HIDE DEF posts, n
      <3> QED
        BY <1>3, <1>5, <2>1
    <2> HIDE DEF posts, n, m, window
    <2>3. DOMAIN window = 1 .. m
      BY <1>5, <2>1, <2>2
    <2>4. m \in Nat /\ m <= n
      BY <2>1, <2>2
    <2>5. \A i \in 1 .. n : i <= m <=> i <= Window
      BY <2>2
    <2> QED
      BY <1>3, <2>3, <2>4, <2>5
  <1>9. ASSUME NEW r \in rows
        PROVE  (\E i \in DOMAIN window : window[i] = r) <=> Cardinality(Ahead(R, rows, r)) < Window
    <2> DEFINE p == Cardinality(Ahead(R, rows, r))
    <2>1. p \in 0 .. n - 1 /\ \A s \in rows : Cardinality(Ahead(R, rows, s)) = p => s = r
      <3> HIDE DEF R
      <3> QED
        BY <1>1, PlacesAreTaken DEF IsTable
    <2>2. Window \in Nat
      BY SizesArePositive
    <2> HIDE DEF posts, n, R, window, p
    <2>3. p + 1 \in 1 .. n /\ posts[p + 1] = r
      <3>1. p + 1 \in 1 .. n /\ (p + 1) - 1 = p
        BY <1>3, <2>1
      <3> QED
        BY <1>4, <2>1, <3>1
    <2>4. \A i \in DOMAIN window : window[i] = r => i - 1 = p
      BY <1>4, <1>6 DEF p
    <2> QED
      BY <1>3, <1>6, <1>8, <2>1, <2>2, <2>3, <2>4 DEF p
  <1> QED
    BY <1>2, <1>6, <1>7, <1>9

(***************************************************************************)
(* Each anomaly of the window has an index of its own.                     *)
(***************************************************************************)
LEMMA AnomaliesAreDistinct ==
    ASSUME NEW values \in Seq(Int \cup {Null})
    PROVE  /\ IsFiniteSet(DetectAnomalies(values))
           /\ \A a \in DetectAnomalies(values) : a[1] \in DOMAIN values /\ a[1] \in Nat
           /\ \A a, b \in DetectAnomalies(values) : a[1] = b[1] => a = b
  <1>1. ASSUME NEW a \in DetectAnomalies(values)
        PROVE  \E e \in Indexed(values) :
                  /\ a = <<e[1], Direction(values, e)>> /\ e = <<a[1], values[a[1]]>>
                  /\ a[1] \in DOMAIN values /\ a[1] \in Nat
    BY AnomalyIsFarOut, IndexedIsFinite
  <1>2. IsFiniteSet(DetectAnomalies(values))
    <2> DEFINE b == [e \in Indexed(values) |-> <<e[1], Direction(values, e)>>]
    <2>1. OneToOne(b, Indexed(values))
      BY IndexedIsFinite DEF OneToOne
    <2>2. IsFiniteSet({b[e] : e \in Indexed(values)})
      <3> HIDE DEF b
      <3> QED
        BY <2>1, IndexedIsFinite, ImageSize
    <2>3. DetectAnomalies(values) \subseteq {b[e] : e \in Indexed(values)}
      BY <1>1
    <2> HIDE DEF b
    <2> QED
      BY <2>2, <2>3, SubsetSize
  <1>3. ASSUME NEW a \in DetectAnomalies(values), NEW b \in DetectAnomalies(values), a[1] = b[1]
        PROVE  a = b
    BY <1>1, <1>3
  <1> QED
    BY <1>1, <1>2, <1>3

(***************************************************************************)
(* If the window does not end between posts of one date, its posts are the *)
(* same in whichever order those come.                                     *)
(***************************************************************************)
LEMMA UncutIsByDate ==
    ASSUME NEW rows, IsTable(rows), Uncut(rows), NEW tie, OrdersTies(tie, rows), NEW r \in rows
    PROVE  Cardinality({s \in rows : Before(s, r, tie)}) < Window
              <=> Cardinality({s \in rows : Later(s, r)}) < Window
  <1> DEFINE later == {s \in rows : Later(s, r)}
             level == {s \in rows : s.posted = r.posted}
             before == {s \in rows : Before(s, r, tie)}
  <1>1. later \subseteq before /\ before \subseteq later \cup (level \ {r}) /\ r \in level
    BY DEF Before, OrdersTies
  <1>2. Cardinality(later) >= Window \/ Cardinality(later) + Cardinality(level) <= Window
    BY DEF Uncut
  <1>3. /\ IsFiniteSet(later) /\ IsFiniteSet(level) /\ IsFiniteSet(before) /\ Window \in Nat
        /\ Cardinality(later) \in Nat /\ Cardinality(level) \in Nat /\ Cardinality(before) \in Nat
    <2>1. later \subseteq rows /\ level \subseteq rows /\ before \subseteq rows
      OBVIOUS
    <2> HIDE DEF later, level, before
    <2> QED
      BY <2>1, SubsetSize, SizesArePositive DEF IsTable
  <1> HIDE DEF later, level, before
  <1>4. Cardinality(later) <= Cardinality(before)
    BY <1>1, <1>3, SubsetSize
  <1>5. Cardinality(before) <= Cardinality(later) + Cardinality(level) - 1
    <2>1. IsFiniteSet(level \ {r}) /\ Cardinality(level \ {r}) = Cardinality(level) - 1
      BY <1>1, <1>3, FS_RemoveElement
    <2>2. IsFiniteSet(later \cup (level \ {r}))
          /\ Cardinality(later \cup (level \ {r}))
              = Cardinality(later) + (Cardinality(level) - 1) - Cardinality(later \cap (level \ {r}))
      BY <1>3, <2>1, FS_Union
    <2>3. Cardinality(later \cap (level \ {r})) \in Nat
      BY <1>3, FS_Subset, FS_CardinalityType
    <2>4. Cardinality(before) <= Cardinality(later \cup (level \ {r}))
      BY <1>1, <2>2, SubsetSize
    <2> QED
      BY <1>3, <2>2, <2>3, <2>4
  <1> QED
    BY <1>2, <1>3, <1>4, <1>5 DEF later, before

(* So the same posts are flagged, whatever the order of the query.         *)
Flagged(rows, tie) ==
    LET window == AnomalyWindow(rows, tie)
    IN  {<<window[a[1]].id, a[2]>> : a \in DetectAnomalies(Views(window))}

LEMMA TiesDoNotMatter ==
    ASSUME NEW rows, IsTable(rows), Uncut(rows),
           NEW tie, OrdersTies(tie, rows), NEW other, OrdersTies(other, rows)
    PROVE  Flagged(rows, tie) = Flagged(rows, other)
  <1> DEFINE w == AnomalyWindow(rows, tie)
             v == AnomalyWindow(rows, other)
             m == [i \in DOMAIN w |-> CHOOSE j \in DOMAIN v : v[j] = w[i]]
  <1>1. /\ w \in Seq(rows) /\ \A i, j \in DOMAIN w : w[i] = w[j] => i = j
        /\ v \in Seq(rows) /\ \A i, j \in DOMAIN v : v[i] = v[j] => i = j
    BY EachRowOnce
  <1>2. \A r \in rows : (\E i \in DOMAIN w : w[i] = r) <=> \E j \in DOMAIN v : v[j] = r
    <2> SUFFICES ASSUME NEW r \in rows
                 PROVE  (\E i \in DOMAIN w : w[i] = r) <=> \E j \in DOMAIN v : v[j] = r
      OBVIOUS
    <2>1. (\E i \in DOMAIN w : w[i] = r) <=> Cardinality({s \in rows : Before(s, r, tie)}) < Window
      BY EachRowOnce
    <2>2. (\E j \in DOMAIN v : v[j] = r) <=> Cardinality({s \in rows : Before(s, r, other)}) < Window
      BY EachRowOnce
    <2>3. Cardinality({s \in rows : Before(s, r, tie)}) < Window
            <=> Cardinality({s \in rows : Later(s, r)}) < Window
      BY UncutIsByDate
    <2>4. Cardinality({s \in rows : Before(s, r, other)}) < Window
            <=> Cardinality({s \in rows : Later(s, r)}) < Window
      BY UncutIsByDate
    <2> HIDE DEF w, v
    <2> QED
      BY <2>1, <2>2, <2>3, <2>4
  <1>3. \A u \in Seq(rows) : /\ Views(u) \in Seq(Int \cup {Null}) /\ DOMAIN Views(u) = DOMAIN u
                            /\ \A i \in DOMAIN u : u[i] \in rows /\ Views(u)[i] = u[i].views
    <2> SUFFICES ASSUME NEW u \in Seq(rows)
                 PROVE  /\ Views(u) \in Seq(Int \cup {Null}) /\ DOMAIN Views(u) = DOMAIN u
                        /\ \A i \in DOMAIN u : u[i] \in rows /\ Views(u)[i] = u[i].views
      OBVIOUS
    <2>1. \A i \in DOMAIN u : u[i] \in rows /\ u[i].views \in Int \cup {Null}
      BY DEF IsTable, Rows
    <2> QED
      BY <2>1 DEF Views
  <1> HIDE DEF w, v
  <1>4. \A i \in DOMAIN w : m[i] \in DOMAIN v /\ v[m[i]] = w[i]
    BY <1>1, <1>2, <1>3
  <1>5. \A j \in DOMAIN v : \E i \in DOMAIN w : w[i] = v[j] /\ m[i] = j
    BY <1>1, <1>2, <1>3, <1>4
  <1> HIDE DEF m
  <1>6. /\ \A e \in Indexed(Views(w)) : e[1] \in DOMAIN w /\ e[2] = w[e[1]].views /\ e[2] # Null
        /\ \A i \in DOMAIN w : w[i].views # Null => <<i, w[i].views>> \in Indexed(Views(w))
    <2>1. \A i \in DOMAIN w : Views(w)[i] = w[i].views
      BY <1>1, <1>3
    <2>2. Views(w) \in Seq(Int \cup {Null}) /\ DOMAIN Views(w) = DOMAIN w
      BY <1>1, <1>3
    <2> QED
      BY <2>1, <2>2, IndexedIsFinite, NullIsNoNumber
  <1>7. /\ \A f \in Indexed(Views(v)) : /\ f = <<f[1], f[2]>> /\ f[1] \in DOMAIN v
                                       /\ f[2] = v[f[1]].views /\ f[2] # Null
        /\ \A j \in DOMAIN v : v[j].views # Null => <<j, v[j].views>> \in Indexed(Views(v))
    <2>1. \A j \in DOMAIN v : Views(v)[j] = v[j].views
      BY <1>1, <1>3
    <2>2. Views(v) \in Seq(Int \cup {Null}) /\ DOMAIN Views(v) = DOMAIN v
      BY <1>1, <1>3
    <2> QED
      BY <2>1, <2>2, IndexedIsFinite, NullIsNoNumber
  <1>8. Moves(m, Views(w), Views(v))
    <2>1. OneToOne(m, {i \in DOMAIN Views(w) : Views(w)[i] # Null})
      BY <1>1, <1>3, <1>4 DEF OneToOne
    <2>2. ASSUME NEW e \in Indexed(Views(w)) PROVE <<m[e[1]], e[2]>> \in Indexed(Views(v))
      <3>1. e[1] \in DOMAIN w /\ e[2] = w[e[1]].views /\ e[2] # Null
        BY <1>6
      <3>2. m[e[1]] \in DOMAIN v /\ v[m[e[1]]] = w[e[1]]
        BY <1>4, <3>1
      <3>3. v[m[e[1]]].views = e[2] /\ v[m[e[1]]].views # Null
        BY <3>1, <3>2
      <3>4. <<m[e[1]], v[m[e[1]]].views>> \in Indexed(Views(v))
        BY <1>7, <3>2, <3>3
      <3> QED
        BY <3>3, <3>4
    <2>3. ASSUME NEW f \in Indexed(Views(v)) PROVE \E e \in Indexed(Views(w)) : f = <<m[e[1]], e[2]>>
      <3>1. f = <<f[1], f[2]>> /\ f[1] \in DOMAIN v /\ f[2] = v[f[1]].views /\ f[2] # Null
        BY <1>7
      <3>2. PICK i \in DOMAIN w : w[i] = v[f[1]] /\ m[i] = f[1]
        BY <1>5, <3>1
      <3>3. w[i].views = f[2] /\ w[i].views # Null
        BY <3>1, <3>2
      <3>4. <<i, w[i].views>> \in Indexed(Views(w))
        BY <1>6, <3>2, <3>3
      <3> QED
        BY <3>1, <3>2, <3>3, <3>4
    <2> QED
      BY <2>1, <2>2, <2>3 DEF Moves
  <1>9. DetectAnomalies(Views(v)) = Moved(m, DetectAnomalies(Views(w)))
    BY <1>1, <1>3, <1>8, AnomaliesMove
  <1>10. \A a \in DetectAnomalies(Views(w)) : a[1] \in DOMAIN w
    BY <1>1, <1>3, AnomaliesAreDistinct
  <1>11. {<<v[a[1]].id, a[2]>> : a \in DetectAnomalies(Views(v))}
          = {<<w[a[1]].id, a[2]>> : a \in DetectAnomalies(Views(w))}
    <2> DEFINE there(a) == <<v[a[1]].id, a[2]>>
               here(a) == <<w[a[1]].id, a[2]>>
               moved(a) == <<m[a[1]], a[2]>>
    <2>1. \A a \in DetectAnomalies(Views(w)) : there(moved(a)) = here(a)
      BY <1>4, <1>10
    <2>2. DetectAnomalies(Views(v)) = {moved(a) : a \in DetectAnomalies(Views(w))}
      BY <1>9 DEF Moved
    <2>3. {there(a) : a \in DetectAnomalies(Views(v))} = {here(a) : a \in DetectAnomalies(Views(w))}
      <3> HIDE DEF there, here, moved
      <3> QED
        BY <2>1, <2>2
    <2> QED
      BY <2>3
  <1> QED
    BY <1>11 DEF Flagged, w, v

(* A badge is what is flagged in the period.                               *)
ShownIn(rows, start, flags) == {c \in flags : \E r \in PeriodPosts(rows, start) : r.id = c[1]}

LEMMA BadgesAreFlagged ==
    ASSUME NEW rows, IsTable(rows), NEW start, NEW tie, OrdersTies(tie, rows)
    PROVE  Badges(rows, start, tie) = ShownIn(rows, start, Flagged(rows, tie))
  <1> DEFINE window == AnomalyWindow(rows, tie)
             found == DetectAnomalies(Views(window))
  <1>1. window \in Seq(rows)
    BY EachRowOnce
  <1>2. \A i \in DOMAIN window : window[i] \in rows /\ window[i].views \in Int \cup {Null}
    BY <1>1 DEF IsTable, Rows
  <1>3. \A a \in found : window[a[1]] \in rows
    <2> HIDE DEF window
    <2>1. Views(window) \in Seq(Int \cup {Null}) /\ DOMAIN Views(window) = DOMAIN window
      BY <1>1, <1>2 DEF Views
    <2> QED
      BY <1>2, <2>1, AnomaliesAreDistinct
  <1>4. Flagged(rows, tie) = {<<window[a[1]].id, a[2]>> : a \in found}
    BY DEF Flagged
  <1>5. Badges(rows, start, tie) = {<<window[a[1]].id, a[2]>> :
            a \in {a \in found : window[a[1]] \in PeriodPosts(rows, start)}}
    BY DEF Badges
  <1>6. \A a \in found : window[a[1]] \in PeriodPosts(rows, start)
                          <=> \E r \in PeriodPosts(rows, start) : r.id = window[a[1]].id
    <2> HIDE DEF window, found
    <2> QED
      BY <1>3 DEF PeriodPosts, IsTable
  <1> HIDE DEF window, found
  <1> QED
    BY <1>4, <1>5, <1>6 DEF ShownIn

(***************************************************************************)
(* What is explained has the badge, and what has it and a text is          *)
(* explained, unless the limit is reached.                                 *)
(***************************************************************************)
LEMMA BadgesAreExplained ==
    ASSUME NEW rows, IsTable(rows), Uncut(rows), NEW start \in Int,
           NEW tie, OrdersTies(tie, rows), NEW other, OrdersTies(other, rows)
    PROVE  BadgesExplained(rows, start, tie, other)
  <1> DEFINE window == AnomalyWindow(rows, other)
             found == DetectAnomalies(Views(window))
             worded == {a \in found : window[a[1]].text}
             R == {p \in worded \X worded : p[1][1] < p[2][1]}
             first == {a \in worded : Cardinality(Ahead(R, worded, a)) < Limit}
             shown == [a \in worded |-> <<window[a[1]].id, a[2]>>]
  <1>1. /\ window \in Seq(rows)
        /\ \A i, j \in DOMAIN window : window[i] = window[j] => i = j
    BY EachRowOnce
  <1>2. \A i \in DOMAIN window : window[i] \in rows /\ window[i].views \in Int \cup {Null}
    BY <1>1 DEF IsTable, Rows
  <1>3. Views(window) \in Seq(Int \cup {Null}) /\ DOMAIN Views(window) = DOMAIN window
    <2> HIDE DEF window
    <2> QED
      BY <1>1, <1>2 DEF Views
  <1>4. /\ IsFiniteSet(found)
        /\ \A a \in found : a[1] \in DOMAIN window /\ a[1] \in Nat
        /\ \A a, b \in found : a[1] = b[1] => a = b
    BY <1>3, AnomaliesAreDistinct
  <1> HIDE DEF window, found
  <1>5. IsFiniteSet(worded) /\ Cardinality(worded) \in Nat /\ Limit \in Nat /\ Limit > 0
    BY <1>4, SubsetSize, SizesArePositive
  <1>6. StrictOrder(R, worded)
    BY <1>4 DEF StrictOrder
  <1>7. \A a \in worded : {b \in worded : b[1] < a[1]} = Ahead(R, worded, a)
    BY DEF Ahead
  <1>8. Explained(rows, other) = {shown[a] : a \in first}
    <2>1. Explained(rows, other) = {<<window[a[1]].id, a[2]>> :
              a \in {a \in worded : Cardinality({b \in worded : b[1] < a[1]}) < Limit}}
      BY DEF Explained, window, found
    <2>2. {a \in worded : Cardinality({b \in worded : b[1] < a[1]}) < Limit} = first
      BY <1>7
    <2>3. first \subseteq worded
      OBVIOUS
    <2> HIDE DEF worded, first
    <2> QED
      BY <2>1, <2>2, <2>3
  <1>9. OneToOne(shown, worded)
    <2> SUFFICES ASSUME NEW a \in worded, NEW b \in worded, shown[a] = shown[b] PROVE a = b
      BY DEF OneToOne
    <2>1. window[a[1]].id = window[b[1]].id
      OBVIOUS
    <2>2. window[a[1]] = window[b[1]]
      BY <1>2, <1>4, <2>1 DEF IsTable
    <2> QED
      BY <1>1, <1>4, <2>2
  <1> DEFINE badges == {b \in Badges(rows, start, other) : \E r \in rows : r.id = b[1] /\ r.text}
  <1>10. badges \subseteq {shown[a] : a \in worded}
    <2> SUFFICES ASSUME NEW c \in badges PROVE \E a \in worded : c = shown[a]
      OBVIOUS
    <2>1. PICK a \in found : c = <<window[a[1]].id, a[2]>>
      BY DEF Badges, window, found
    <2>2. PICK r \in rows : r.id = window[a[1]].id /\ r.text
      BY <2>1
    <2>3. a \in worded
      BY <1>2, <1>4, <2>2 DEF IsTable
    <2> QED
      BY <2>1, <2>3
  <1>11. badges \subseteq Explained(rows, other) \/ Cardinality(Explained(rows, other)) = Limit
    <2>1. CASE Cardinality(worded) <= Limit
      <3>1. ASSUME NEW a \in worded PROVE a \in first
        <4>1. Cardinality(Ahead(R, worded, a)) \in 0 .. Cardinality(worded) - 1
          <5> HIDE DEF worded, R
          <5> QED
            BY <1>5, <1>6, PlacesAreTaken
        <4> HIDE DEF R
        <4> QED
          BY <1>5, <2>1, <4>1
      <3>2. first = worded
        BY <3>1
      <3> HIDE DEF first, badges, worded, shown
      <3> QED
        BY <1>8, <1>10, <3>2
    <2>2. CASE ~(Cardinality(worded) <= Limit)
      <3> DEFINE place == [a \in first |-> Cardinality(Ahead(R, worded, a))]
      <3>1. /\ \A x \in worded : Cardinality(Ahead(R, worded, x)) \in 0 .. Cardinality(worded) - 1
            /\ \A x, y \in worded : Cardinality(Ahead(R, worded, x)) = Cardinality(Ahead(R, worded, y)) => x = y
            /\ \A k \in 0 .. Cardinality(worded) - 1 : \E x \in worded : Cardinality(Ahead(R, worded, x)) = k
        <4> HIDE DEF worded, R
        <4> QED
          BY <1>5, <1>6, PlacesAreTaken
      <3>2. IsFiniteSet(first) /\ first \subseteq worded
        BY <1>5, SubsetSize
      <3>3. OneToOne(place, first)
        <4> HIDE DEF worded, R
        <4> QED
          BY <3>1, <3>2 DEF OneToOne
      <3>4. {place[a] : a \in first} = 0 .. Limit - 1
        <4> HIDE DEF worded, R
        <4> QED
          BY <1>5, <2>2, <3>1
      <3>5. Cardinality(first) = Limit
        <4>1. Cardinality({place[a] : a \in first}) = Cardinality(first)
          <5> HIDE DEF place, first
          <5> QED
            BY <3>2, <3>3, ImageSize
        <4>2. Cardinality(0 .. Limit - 1) = IF 0 > Limit - 1 THEN 0 ELSE (Limit - 1) - 0 + 1
          BY <1>5, FS_Interval
        <4>3. ~(0 > Limit - 1) /\ (Limit - 1) - 0 + 1 = Limit
          BY <1>5
        <4>4. Cardinality(0 .. Limit - 1) = Limit
          BY <4>2, <4>3
        <4> HIDE DEF place, first
        <4> QED
          BY <3>4, <4>1, <4>4
      <3>6. OneToOne(shown, first)
        BY <1>9, <3>2 DEF OneToOne
      <3> HIDE DEF first, shown
      <3> QED
        BY <1>8, <3>2, <3>5, <3>6, ImageSize
    <2> QED
      BY <2>1, <2>2
  <1>12. ASSUME NEW r \in PeriodPosts(rows, start), NEW e \in Explained(rows, other), e[1] = r.id
         PROVE  e \in badges
    <2>1. PICK a \in worded : e = <<window[a[1]].id, a[2]>>
      BY <1>8
    <2>2. window[a[1]] = r /\ r \in rows /\ r.text
      <3>1. r \in rows /\ window[a[1]] \in rows
        BY <1>2, <1>4 DEF PeriodPosts
      <3> QED
        BY <1>12, <2>1, <3>1 DEF IsTable
    <2>3. e \in Badges(rows, start, other)
      BY <2>1, <2>2 DEF Badges, window, found
    <2> QED
      BY <1>12, <2>2, <2>3
  <1>13. Badges(rows, start, tie) = Badges(rows, start, other)
    BY BadgesAreFlagged, TiesDoNotMatter
  <1> QED
    BY <1>11, <1>12, <1>13 DEF BadgesExplained
-----------------------------------------------------------------------------
(***************************************************************************)
(* A sum depends on what is summed only; it is the sum of its parts; and   *)
(* a number of elements is a sum of ones.                                  *)
(***************************************************************************)
LEMMA SumOfSame ==
    ASSUME NEW S, IsFiniteSet(S), NEW f, NEW g, \A x \in S : f[x] \in Int /\ f[x] = g[x]
    PROVE  SumFunctionOnSet(f, S) = SumFunctionOnSet(g, S)
  <1> DEFINE b == [x \in S |-> x]
  <1>1. OneToOne(b, S) /\ {b[x] : x \in S} = S /\ \A x \in S : f[x] = g[b[x]]
    BY DEF OneToOne
  <1> HIDE DEF b
  <1>2. SumFunctionOnSet(f, S) = SumFunctionOnSet(g, {b[x] : x \in S})
    BY <1>1, SumRenamed
  <1> QED
    BY <1>1, <1>2

(* A sum over two disjoint sets is the sum of theirs.                      *)
LEMMA SumOfUnion ==
    ASSUME NEW S, IsFiniteSet(S), NEW T, IsFiniteSet(T), S \cap T = {},
           NEW f, \A x \in S \cup T : f[x] \in Int
    PROVE  SumFunctionOnSet(f, S \cup T) = SumFunctionOnSet(f, S) + SumFunctionOnSet(f, T)
  <1> DEFINE Sum(U) == SumFunctionOnSet(f, U)
             Good == {U \in SUBSET S : Sum(U \cup T) = Sum(U) + Sum(T)}
  <1>1. Sum(T) \in Int
    BY SumIsNumber
  <1>2. {} \in Good
    <2>1. {} \cup T = T /\ Sum({}) = 0
      BY SumOfNothing
    <2> QED
      BY <1>1, <2>1
  <1>3. ASSUME NEW U \in SUBSET S, NEW x \in S, x \notin U, U \in Good PROVE U \cup {x} \in Good
    <2> DEFINE V == U \cup {x}
               W == V \cup T
    <2>1. V \ {x} = U /\ W \ {x} = U \cup T /\ x \in V /\ x \in W
      BY <1>3
    <2>2. V \subseteq S /\ W \subseteq S \cup T /\ IsFiniteSet(S \cup T)
      BY FS_Union
    <2> HIDE DEF V, W
    <2>3. IsFiniteSet(V) /\ IsFiniteSet(W) /\ IsFiniteSet(U)
      BY <2>2, SubsetSize
    <2>4. Sum(V) = f[x] + Sum(U) /\ Sum(W) = f[x] + Sum(U \cup T)
      BY <2>1, <2>2, <2>3, SumWithout
    <2>5. f[x] \in Int /\ Sum(U) \in Int
      BY <2>3, SumIsNumber
    <2>6. Sum(U \cup T) = Sum(U) + Sum(T)
      BY <1>3
    <2>7. Sum(W) = Sum(V) + Sum(T)
      <3> HIDE DEF Sum
      <3> QED
        BY <1>1, <2>4, <2>5, <2>6
    <2> QED
      BY <2>2, <2>7 DEF V, W
  <1>4. S \in Good
    <2> HIDE DEF Good
    <2> QED
      BY <1>2, <1>3, SetInduction
  <1> QED
    BY <1>4

(* A sum of ones counts the elements.                                      *)
LEMMA SumOfOnes ==
    ASSUME NEW S, IsFiniteSet(S), NEW f, \A x \in S : f[x] = 1
    PROVE  SumFunctionOnSet(f, S) = Cardinality(S)
  <1> DEFINE Good == {U \in SUBSET S : SumFunctionOnSet(f, U) = Cardinality(U)}
  <1>1. {} \in Good
    BY SumOfNothing, FS_EmptySet
  <1>2. ASSUME NEW U \in SUBSET S, NEW x \in S, x \notin U, U \in Good PROVE U \cup {x} \in Good
    <2> DEFINE V == U \cup {x}
    <2>1. V \ {x} = U /\ x \in V /\ V \subseteq S /\ f[x] = 1 /\ IsFiniteSet(U)
      BY <1>2, SubsetSize
    <2>2. Cardinality(V) = Cardinality(U) + 1 /\ Cardinality(U) \in Nat
      BY <1>2, <2>1, FS_AddElement, FS_CardinalityType
    <2> HIDE DEF V
    <2>3. IsFiniteSet(V) /\ \A y \in V : f[y] \in Int
      BY <2>1, SubsetSize
    <2>4. SumFunctionOnSet(f, V) = f[x] + SumFunctionOnSet(f, U)
      BY <2>1, <2>3, SumWithout
    <2> QED
      BY <1>2, <2>1, <2>2, <2>4 DEF V
  <1>3. S \in Good
    <2> HIDE DEF Good
    <2> QED
      BY <1>1, <1>2, SetInduction
  <1> QED
    BY <1>3

(***************************************************************************)
(* Summing day by day, over some days, is summing over their posts.        *)
(***************************************************************************)
LEMMA SumByDay ==
    ASSUME NEW D, IsFiniteSet(D), NEW S, IsFiniteSet(S), NEW dateOf, \A x \in S : dateOf[x] \in D,
           NEW f, \A x \in S : f[x] \in Int, NEW part,
           \A d \in D : part[d] \subseteq S /\ \A x \in S : x \in part[d] <=> dateOf[x] = d,
           NEW sums, \A d \in D : sums[d] = SumFunctionOnSet(f, part[d])
    PROVE  SumFunctionOnSet(sums, D) = SumFunctionOnSet(f, S)
  <1> DEFINE On(U) == {x \in S : dateOf[x] \in U}
             Good == {U \in SUBSET D : SumFunctionOnSet(sums, U) = SumFunctionOnSet(f, On(U))}
  <1>1. {} \in Good
    <2>1. On({}) = {}
      OBVIOUS
    <2> QED
      BY <2>1, SumOfNothing
  <1>2. \A d \in D : sums[d] \in Int
    <2> SUFFICES ASSUME NEW d \in D PROVE sums[d] \in Int
      OBVIOUS
    <2>1. IsFiniteSet(part[d]) /\ \A x \in part[d] : f[x] \in Int
      BY SubsetSize
    <2> QED
      BY <2>1, SumIsNumber
  <1>3. ASSUME NEW U \in SUBSET D, NEW d \in D, d \notin U, U \in Good PROVE U \cup {d} \in Good
    <2> DEFINE V == U \cup {d}
               P == {x \in S : dateOf[x] = d}
    <2>1. V \ {d} = U /\ d \in V /\ V \subseteq D
      BY <1>3
    <2>2. On(V) = On(U) \cup P /\ On(U) \cap P = {} /\ On(U) \cup P \subseteq S /\ On(U) \subseteq S /\ P \subseteq S
      BY <1>3
    <2>3. sums[d] = SumFunctionOnSet(f, P)
      <3>1. part[d] = P
        OBVIOUS
      <3> QED
        BY <3>1
    <2> HIDE DEF V, P, On
    <2>4. IsFiniteSet(V) /\ \A e \in V : sums[e] \in Int
      BY <1>2, <2>1, SubsetSize
    <2>5. SumFunctionOnSet(sums, V) = sums[d] + SumFunctionOnSet(sums, U)
      BY <2>1, <2>4, SumWithout
    <2>6. IsFiniteSet(On(U)) /\ IsFiniteSet(P) /\ \A x \in On(U) \cup P : f[x] \in Int
      BY <2>2, SubsetSize
    <2>7. SumFunctionOnSet(f, On(V)) = SumFunctionOnSet(f, On(U)) + SumFunctionOnSet(f, P)
      BY <2>2, <2>6, SumOfUnion
    <2>8. SumFunctionOnSet(f, On(U)) \in Int /\ SumFunctionOnSet(f, P) \in Int
      BY <2>6, SumIsNumber
    <2>9. SumFunctionOnSet(sums, U) = SumFunctionOnSet(f, On(U))
      BY <1>3 DEF On
    <2>10. SumFunctionOnSet(sums, V) = SumFunctionOnSet(f, On(V))
      BY <2>3, <2>5, <2>7, <2>8, <2>9
    <2> QED
      BY <2>1, <2>10 DEF V, On
  <1>4. D \in Good
    <2> HIDE DEF Good
    <2> QED
      BY <1>1, <1>3, SetInduction
  <1>5. On(D) = S
    OBVIOUS
  <1> QED
    BY <1>4, <1>5

(***************************************************************************)
(* A later time is not on an earlier day.                                  *)
(***************************************************************************)
LEMMA DatesFollowTimes ==
    ASSUME NEW t \in Int, NEW u \in Int, t <= u
    PROVE  Date(t) \in Int /\ Date(t) <= Date(u)
  <1>1. DayLength \in Nat /\ DayLength > 0
    BY SizesArePositive
  <1> QED
    BY <1>1 DEF Date

(***************************************************************************)
(* The views of some posts of a table are a sum over the table's views.    *)
(***************************************************************************)
LEMMA ViewsAreAdded ==
    ASSUME NEW rows, IsTable(rows), NEW Q \in SUBSET rows,
           NEW views, views = [r \in rows |-> r.views]
    PROVE  /\ IsFiniteSet(Viewed(Q)) /\ \A r \in Viewed(Q) : views[r] \in Int
           /\ SumOfViews(Q) = SumFunctionOnSet(views, Viewed(Q)) /\ SumOfViews(Q) \in Int
  <1> DEFINE own == [r \in Viewed(Q) |-> r.views]
  <1>1. Viewed(Q) \subseteq rows /\ \A r \in Viewed(Q) : views[r] \in Int /\ own[r] = views[r] /\ own[r] \in Int
    BY DEF Viewed, IsTable, Rows
  <1>2. IsFiniteSet(Viewed(Q))
    BY <1>1, SubsetSize DEF IsTable
  <1>3. SumOfViews(Q) = SumFunctionOnSet(own, Viewed(Q))
    BY DEF SumOfViews, SumFunction
  <1> HIDE DEF own
  <1>4. SumFunctionOnSet(own, Viewed(Q)) = SumFunctionOnSet(views, Viewed(Q))
    BY <1>1, <1>2, SumOfSame
  <1>5. SumFunctionOnSet(own, Viewed(Q)) \in Int
    BY <1>1, <1>2, SumIsNumber
  <1> QED
    BY <1>1, <1>2, <1>3, <1>4, <1>5

(***************************************************************************)
(* The chart has each post of the period on one day, unless it is of a day *)
(* after the last one.                                                     *)
(***************************************************************************)
LEMMA ChartAddsUp ==
    ASSUME NEW rows, IsTable(rows), NEW start \in Int
    PROVE  DailyAddsUp(rows, start)
  <1> DEFINE All == PeriodPosts(rows, start)
             late == {r \in All : Date(r.posted) > Date(Now)}
             P == All \ late
             D == Date(start) .. Date(Now)
             On(d) == {r \in P : Date(r.posted) = d}
             days == DailyPoints(rows, start, Now)
             shown == {d \in DOMAIN days : days[d].views # Null}
             views == [r \in rows |-> r.views]
             dateOf == [r \in rows |-> Date(r.posted)]
             part == [d \in D |-> On(d)]
             partViewed == [d \in D |-> Viewed(On(d))]
  <1>1. /\ P \subseteq rows /\ IsFiniteSet(P) /\ \A r \in P : Date(r.posted) \in D
        /\ IsFiniteSet(D) /\ late \subseteq rows /\ P \cup late = All /\ P \cap late = {}
    <2>1. /\ P \subseteq rows /\ late \subseteq rows /\ P \cup late = All /\ P \cap late = {}
          /\ \A r \in P : r.posted \in Int /\ start <= r.posted /\ ~(Date(r.posted) > Date(Now))
      BY DEF PeriodPosts, IsTable, Rows
    <2>2. Date(start) \in Int /\ Date(Now) \in Int
      BY PeriodsAreTimes, DatesFollowTimes
    <2>3. \A r \in P : Date(r.posted) \in Int /\ Date(start) <= Date(r.posted) /\ Date(r.posted) <= Date(Now)
      <3> HIDE DEF P
      <3> SUFFICES ASSUME NEW r \in P
                   PROVE  Date(r.posted) \in Int /\ Date(start) <= Date(r.posted) /\ Date(r.posted) <= Date(Now)
        OBVIOUS
      <3>1. Date(r.posted) \in Int /\ Date(start) <= Date(r.posted)
        BY <2>1, DatesFollowTimes
      <3> QED
        BY <2>1, <2>2, <3>1
    <2>4. IsFiniteSet(D)
      BY <2>2, FS_Interval
    <2>5. IsFiniteSet(P)
      <3> HIDE DEF P
      <3> QED
        BY <2>1, SubsetSize DEF IsTable
    <2>6. \A r \in P : Date(r.posted) \in D
      BY <2>2, <2>3
    <2> HIDE DEF P, late, All, D
    <2> QED
      BY <2>1, <2>4, <2>5, <2>6
  <1>2. \A Q \in SUBSET rows :
            /\ IsFiniteSet(Viewed(Q)) /\ \A r \in Viewed(Q) : views[r] \in Int
            /\ SumOfViews(Q) = SumFunctionOnSet(views, Viewed(Q)) /\ SumOfViews(Q) \in Int
    BY ViewsAreAdded
  <1>3. /\ DOMAIN days = D
        /\ \A d \in D : /\ days[d].posts = Cardinality(On(d))
                        /\ days[d].views = IF Viewed(On(d)) = {} THEN Null ELSE SumOfViews(On(d))
    <2>1. ASSUME NEW d \in D PROVE {r \in All : Date(r.posted) = d} = On(d)
      <3>1. ~(d > Date(Now))
        BY PeriodsAreTimes, DatesFollowTimes
      <3> QED
        BY <3>1
    <2> HIDE DEF P, late, On
    <2> QED
      BY <2>1 DEF DailyPoints
  <1>4. shown = {d \in D : Viewed(On(d)) # {}}
    <2>1. \A d \in D : SumOfViews(On(d)) # Null
      <3>1. \A d \in D : On(d) \in SUBSET rows
        BY <1>1
      <3> HIDE DEF P, On
      <3> QED
        BY <1>2, <3>1, NullIsNoNumber
    <2> HIDE DEF days, On, P, D
    <2> QED
      BY <1>3, <2>1
  <1>5. SumFunction([d \in DOMAIN days |-> days[d].posts]) = Cardinality(P)
    <2> DEFINE sizes == [d \in DOMAIN days |-> days[d].posts]
               ones == [r \in P |-> 1]
    <2>1. \A d \in D : /\ part[d] \subseteq P
                       /\ \A r \in P : r \in part[d] <=> dateOf[r] = d
                       /\ sizes[d] = Cardinality(part[d])
      BY <1>1, <1>3
    <2>2. \A r \in P : dateOf[r] \in D /\ ones[r] \in Int /\ ones[r] = 1
      BY <1>1
    <2>3. SumFunction(sizes) = SumFunctionOnSet(sizes, D)
      BY <1>3 DEF SumFunction
    <2> HIDE DEF P, D, dateOf, ones, sizes, part
    <2>4. \A d \in D : sizes[d] = SumFunctionOnSet(ones, part[d])
      <3> SUFFICES ASSUME NEW d \in D PROVE sizes[d] = SumFunctionOnSet(ones, part[d])
        OBVIOUS
      <3>1. IsFiniteSet(part[d]) /\ \A r \in part[d] : ones[r] = 1
        BY <1>1, <2>1, <2>2, SubsetSize
      <3>2. SumFunctionOnSet(ones, part[d]) = Cardinality(part[d])
        BY <3>1, SumOfOnes
      <3>3. sizes[d] = Cardinality(part[d])
        BY <2>1
      <3> QED
        BY <3>2, <3>3
    <2>6. SumFunctionOnSet(sizes, D) = SumFunctionOnSet(ones, P)
      BY <1>1, <2>1, <2>2, <2>4, SumByDay
    <2>5. SumFunctionOnSet(ones, P) = Cardinality(P)
      BY <1>1, <2>2, SumOfOnes
    <2> QED
      BY <2>3, <2>5, <2>6 DEF sizes
  <1>6. Viewed(P) = {} => shown = {}
    BY <1>4 DEF Viewed
  <1>7. SumFunction([d \in shown |-> days[d].views]) = SumOfViews(P)
    <2> DEFINE sums == [d \in shown |-> days[d].views]
               S == Viewed(P)
    <2>1. \A d \in shown : /\ partViewed[d] \subseteq S
                           /\ \A r \in S : r \in partViewed[d] <=> dateOf[r] = d
                           /\ sums[d] = SumFunctionOnSet(views, partViewed[d])
      <3> SUFFICES ASSUME NEW d \in shown
                   PROVE  /\ Viewed(On(d)) \subseteq S
                          /\ \A r \in S : r \in Viewed(On(d)) <=> dateOf[r] = d
                          /\ sums[d] = SumFunctionOnSet(views, Viewed(On(d)))
        BY <1>4
      <3>1. /\ Viewed(On(d)) \subseteq S /\ On(d) \in SUBSET rows
            /\ \A r \in S : r \in Viewed(On(d)) <=> dateOf[r] = d
        BY <1>1 DEF Viewed
      <3>2. sums[d] = SumOfViews(On(d))
        <4>1. d \in D /\ Viewed(On(d)) # {}
          BY <1>4
        <4>2. sums[d] = days[d].views
          OBVIOUS
        <4> HIDE DEF days, On, D, shown, sums
        <4> QED
          BY <1>3, <4>1, <4>2
      <3> HIDE DEF On, views, P, sums, S, shown, dateOf
      <3> QED
        BY <1>2, <3>1, <3>2
    <2>2. \A r \in S : dateOf[r] \in shown
      <3> SUFFICES ASSUME NEW r \in S PROVE dateOf[r] \in shown
        OBVIOUS
      <3>1. r \in P /\ r \in rows /\ dateOf[r] = Date(r.posted) /\ r.views # Null
        BY <1>1 DEF Viewed
      <3>2. dateOf[r] \in D /\ r \in Viewed(On(dateOf[r]))
        BY <1>1, <3>1 DEF Viewed
      <3> HIDE DEF dateOf, On, D, P, shown, S
      <3> QED
        BY <1>4, <3>2
    <2>3. SumFunction(sums) = SumFunctionOnSet(sums, shown) /\ shown \subseteq D
      BY <1>4 DEF SumFunction
    <2>4. IsFiniteSet(S) /\ (\A r \in S : views[r] \in Int) /\ SumOfViews(P) = SumFunctionOnSet(views, S)
      <3> HIDE DEF P, views
      <3> QED
        BY <1>1, <1>2
    <2>5. IsFiniteSet(shown)
      <3> HIDE DEF D, shown
      <3> QED
        BY <1>1, <2>3, SubsetSize
    <2> HIDE DEF S, shown, dateOf, views, sums, P, partViewed
    <2>6. SumFunctionOnSet(sums, shown) = SumFunctionOnSet(views, S)
      <3>1. \A r \in S : views[r] \in Int
        BY <2>4
      <3>2. IsFiniteSet(S) /\ IsFiniteSet(shown)
        BY <2>4, <2>5
      <3> QED
        BY <2>1, <2>2, <3>1, <3>2, SumByDay
    <2>7. SumFunction(sums) = SumOfViews(P)
      BY <2>3, <2>4, <2>6
    <2> QED
      BY <2>7 DEF sums
  <1>8. Cardinality(P) + Cardinality(late) = Cardinality(All) /\ Cardinality(All) <= Cardinality(rows)
    <2>1. IsFiniteSet(late) /\ IsFiniteSet(rows) /\ All \subseteq rows
      BY <1>1, SubsetSize DEF IsTable
    <2>2. Cardinality(P \cup late) = Cardinality(P) + Cardinality(late)
      <3> HIDE DEF P, late
      <3>1. Cardinality(P \cup late) = Cardinality(P) + Cardinality(late) - Cardinality(P \cap late)
        BY <1>1, <2>1, FS_Union
      <3>2. Cardinality(P \cap late) = 0 /\ Cardinality(P) \in Nat /\ Cardinality(late) \in Nat
        BY <1>1, <2>1, FS_EmptySet, FS_CardinalityType
      <3> QED
        BY <3>1, <3>2
    <2> HIDE DEF P, late, All
    <2> QED
      BY <1>1, <2>1, <2>2, SubsetSize
  <1>9. /\ Viewed(P) \cup Viewed(late) = Viewed(All)
        /\ SumOfViews(P) + SumOfViews(late) = SumOfViews(All)
        /\ IsFiniteSet(Viewed(All)) /\ SumOfViews(All) \in Int
    <2>1. Viewed(P) \cup Viewed(late) = Viewed(All) /\ Viewed(P) \cap Viewed(late) = {} /\ All \subseteq rows
      BY <1>1 DEF Viewed
    <2> HIDE DEF P, late, All, views
    <2>2. P \in SUBSET rows /\ late \in SUBSET rows /\ All \in SUBSET rows
      BY <1>1, <2>1
    <2>3. /\ IsFiniteSet(Viewed(P)) /\ IsFiniteSet(Viewed(late)) /\ IsFiniteSet(Viewed(All))
          /\ SumOfViews(P) = SumFunctionOnSet(views, Viewed(P))
          /\ SumOfViews(late) = SumFunctionOnSet(views, Viewed(late))
          /\ SumOfViews(All) = SumFunctionOnSet(views, Viewed(All)) /\ SumOfViews(All) \in Int
          /\ \A r \in Viewed(P) \cup Viewed(late) : views[r] \in Int
      BY <1>2, <2>1, <2>2
    <2>4. SumFunctionOnSet(views, Viewed(P) \cup Viewed(late))
            = SumFunctionOnSet(views, Viewed(P)) + SumFunctionOnSet(views, Viewed(late))
      BY <2>1, <2>3, SumOfUnion
    <2> QED
      BY <2>1, <2>3, <2>4
  <1> DEFINE figures == Overview(rows, start)
  <1>10. /\ figures.posts_in_period = Cardinality(All) /\ figures.posts_total = Cardinality(rows)
         /\ Viewed(All) = {} => figures.avg_views = Null
         /\ Viewed(All) # {} => figures.avg_views = <<SumOfViews(All), Cardinality(Viewed(All))>>
    BY DEF Overview
  <1>11. Viewed(All) # {} => figures.avg_views # Null /\ figures.avg_views[1] = SumOfViews(All)
    <2>1. SumOfViews(All) \in Int /\ Cardinality(Viewed(All)) \in Int
      <3> HIDE DEF All
      <3>1. Cardinality(Viewed(All)) \in Nat
        BY <1>9, FS_CardinalityType
      <3> QED
        BY <1>9, <3>1
    <2> HIDE DEF All, figures
    <2> QED
      BY <1>10, <2>1, NullIsNoNumber
  <1>12. DailyAddsUp(rows, start) <=>
            /\ SumFunction([d \in DOMAIN days |-> days[d].posts]) + Cardinality(late) = figures.posts_in_period
            /\ figures.posts_in_period <= figures.posts_total
            /\ IF figures.avg_views = Null THEN shown = {}
               ELSE SumFunction([d \in shown |-> days[d].views]) + SumOfViews(late) = figures.avg_views[1]
    BY DEF DailyAddsUp
  <1> HIDE DEF P, D, All, late, days, shown, figures
  <1> QED
    BY <1>5, <1>6, <1>7, <1>8, <1>9, <1>10, <1>11, <1>12

(***************************************************************************)
(* The health of a channel never looks better for more failures or an      *)
(* older fetch: a comparison of the cases.                                 *)
(***************************************************************************)
LEMMA HealthWorsens == HealthOnlyWorsens
  BY NullIsNoNumber DEF HealthOnlyWorsens, Health

(* Both hold of every table and period of the model.                       *)
LEMMA NothingInconsistent == Inconsistent = {}
  <1> SUFFICES ASSUME NEW rows \in Tables, NEW start \in Starts
               PROVE  /\ Uncut(rows) => \A tie, other \in Ties : BadgesExplained(rows, start, tie, other)
                      /\ DailyAddsUp(rows, start)
    BY DEF Inconsistent
  <1>1. IsTable(rows) /\ start \in Int
    BY TablesHaveRows, PeriodsAreTimes DEF IsTable, Rows
  <1>2. \A tie \in Ties : OrdersTies(tie, rows)
    BY TiesAreOrders DEF OrdersTies
  <1> QED
    BY <1>1, <1>2, BadgesAreExplained, ChartAddsUp

(***************************************************************************)
(* detect_anomalies is sound on every series of views: the anomalies are   *)
(* fewer than half, outermost, and those of the series without its missing *)
(* values, each at its own index.                                          *)
(***************************************************************************)
THEOREM AnomaliesAreSound == Spec => []AnomaliesSound
  <1>1. AnomaliesSound
    BY NoneMisjudged DEF AnomaliesSound
  <1> QED
    BY <1>1, PTL

(***************************************************************************)
(* The parts of a channel's page agree, whatever its posts and the period. *)
(***************************************************************************)
THEOREM PageIsAlwaysConsistent == Spec => []PageIsConsistent
  <1>1. PageIsConsistent
    BY NothingInconsistent, HealthWorsens DEF PageIsConsistent
  <1> QED
    BY <1>1, PTL
=============================================================================
