--------------------------- MODULE TmeFetchProofs ---------------------------
(***************************************************************************)
(* Proofs about TmeFetch, for any page size, caps, cutoffs and number of   *)
(* messages, whatever is published and deleted during the fetch.           *)
(***************************************************************************)
EXTENDS TmeFetch, FiniteSetTheorems, WellFoundedInduction, TLAPS

(***************************************************************************)
(* The loop goes on only below its bounds, and without a result.           *)
(***************************************************************************)
LoopRuns ==
    /\ pc # "done" => result = {} /\ outcome = None /\ pages < MaxPages
    /\ pc = "sleeping" => attempt < MaxRetries
    /\ pc # "done" /\ pages > 0 => before # None
    /\ pages = 0 => posts = {} /\ before = None /\ ~cutoff

(***************************************************************************)
(* The pages seen are a block at the end of the channel: no post is older  *)
(* than the cursor, and nothing that stays is newer and not collected.     *)
(***************************************************************************)
CollectedFromCursor ==
    /\ before # None => \A k \in posts : k >= before
    /\ pages > 0 => \A m \in steady : before = None \/ m >= before => m \in posts

CutoffSeen == cutoff => \E m \in posts : TooOld(m)

FetchedIsKept == Fetched => pages > 0 /\ result = Kept(posts)

IInv == TypeOK /\ LoopRuns /\ CollectedFromCursor /\ CutoffSeen /\ FetchedIsKept /\ FailureIsEmpty
-----------------------------------------------------------------------------
(***************************************************************************)
(* The bounds of fetch_telegram_posts, as numbers.                         *)
(***************************************************************************)
LEMMA Sizes ==
    /\ MaxId \in Nat /\ PageSize \in Nat /\ PageSize > 0
    /\ MaxPages \in Nat /\ MaxPages > 0 /\ MaxRetries \in Nat
    /\ Caps \subseteq Nat /\ \A c \in Caps : c > 0
  BY SizesArePositive, RetriesAreNat

(***************************************************************************)
(* Messages are numbered in the order they are published.                  *)
(***************************************************************************)
LEMMA IdsAreNumbers == Ids \subseteq Nat
  BY Sizes DEF Ids

(***************************************************************************)
(* A set of messages is finite.                                            *)
(***************************************************************************)
LEMMA MessagesAreFinite ==
    ASSUME NEW S \in SUBSET Ids
    PROVE  IsFiniteSet(S) /\ Cardinality(S) \in Nat
  <1>1. IsFiniteSet(Ids)
    BY Sizes, FS_Interval DEF Ids
  <1> QED
    BY <1>1, FS_Subset, FS_CardinalityType

(***************************************************************************)
(* A page that has messages has an oldest and a newest one.  The sets of   *)
(* messages on one side of a message are ordered by inclusion, and among   *)
(* finite sets inclusion is well-founded.                                  *)
(***************************************************************************)
LEMMA OldestAndNewestExist ==
    ASSUME NEW S \in SUBSET Ids, S # {}
    PROVE  /\ \E m \in S : \A k \in S : m <= k
           /\ \E m \in S : \A k \in S : k <= m
  <1> DEFINE Below(m) == {k \in S : k < m}
             Above(m) == {k \in S : k > m}
             Strictly == StrictSubsetOrdering(S)
  <1>1. IsFiniteSet(S) /\ S \subseteq Nat
    BY MessagesAreFinite, Sizes DEF Ids
  <1>2. IsWellFoundedOn(Strictly, SUBSET S)
    BY <1>1, FS_StrictSubsetOrderingWellFounded, FS_FiniteSubsetsOfFinite
  <1>3. PICK m \in S : \A k \in S : <<Below(k), Below(m)>> \notin Strictly
    <2>1. {Below(m) : m \in S} \subseteq SUBSET S /\ {Below(m) : m \in S} # {}
      OBVIOUS
    <2>2. PICK x \in {Below(m) : m \in S} :
              \A y \in {Below(m) : m \in S} : <<y, x>> \notin Strictly
      <3> HIDE DEF Below, Strictly
      <3> QED
        BY <1>2, <2>1, WFMin
    <2> QED
      BY <2>2
  <1>4. ASSUME NEW k \in S PROVE m <= k
    <2> SUFFICES ASSUME k < m PROVE FALSE
      BY <1>1
    <2>1. m \in Nat /\ k \in Nat /\ \A x \in S : x \in Nat
      BY <1>1
    <2>2. ASSUME NEW x \in Below(k) PROVE x \in Below(m)
      <3>1. x \in Nat /\ x \in S /\ x < k
        BY <2>1
      <3> QED
        BY <2>1, <3>1
    <2>3. k \in Below(m) /\ k \notin Below(k)
      BY <2>1
    <2> QED
      BY <1>3, <2>2, <2>3 DEF StrictSubsetOrdering
  <1>5. PICK n \in S : \A k \in S : <<Above(k), Above(n)>> \notin Strictly
    <2>1. {Above(k) : k \in S} \subseteq SUBSET S /\ {Above(k) : k \in S} # {}
      OBVIOUS
    <2>2. PICK x \in {Above(k) : k \in S} :
              \A y \in {Above(k) : k \in S} : <<y, x>> \notin Strictly
      <3> HIDE DEF Above, Strictly
      <3> QED
        BY <1>2, <2>1, WFMin
    <2> QED
      BY <2>2
  <1>6. ASSUME NEW k \in S PROVE k <= n
    <2> SUFFICES ASSUME k > n PROVE FALSE
      BY <1>1
    <2>1. n \in Nat /\ k \in Nat /\ \A x \in S : x \in Nat
      BY <1>1
    <2>2. ASSUME NEW x \in Above(k) PROVE x \in Above(n)
      <3>1. x \in Nat /\ x \in S /\ x > k
        BY <2>1
      <3> QED
        BY <2>1, <3>1
    <2>3. k \in Above(n) /\ k \notin Above(k)
      BY <2>1
    <2> QED
      BY <1>5, <2>2, <2>3 DEF StrictSubsetOrdering
  <1> QED
    BY <1>3, <1>4, <1>5, <1>6

(***************************************************************************)
(* The newest n of a set of messages: with one, every newer one.           *)
(***************************************************************************)
LEMMA NewestHasTheNewer ==
    ASSUME NEW S \in SUBSET Ids, NEW n \in Nat, NEW k \in Newest(S, n), NEW m \in S, m > k
    PROVE  m \in Newest(S, n)
  <1> DEFINE Above(x) == {y \in S : y > x}
  <1>1. Above(m) \subseteq Above(k) /\ Above(k) \in SUBSET Ids
    <2>1. m \in Nat /\ k \in Nat
      BY IdsAreNumbers DEF Newest
    <2>2. ASSUME NEW x \in Above(m) PROVE x \in Above(k)
      <3>1. x \in Nat /\ x \in S /\ x > m
        BY IdsAreNumbers
      <3> QED
        BY <2>1, <3>1
    <2> QED
      BY <2>2
  <1>2. /\ Cardinality(Above(m)) <= Cardinality(Above(k))
        /\ Cardinality(Above(m)) \in Nat /\ Cardinality(Above(k)) \in Nat
    BY <1>1, MessagesAreFinite, FS_Subset, FS_CardinalityType
  <1>3. Cardinality(Above(k)) < n
    BY DEF Newest
  <1> QED
    BY <1>2, <1>3 DEF Newest

(***************************************************************************)
(* They are all there are, if they are fewer than n.                       *)
(***************************************************************************)
LEMMA FewerThanAskedAreAll ==
    ASSUME NEW S \in SUBSET Ids, NEW n \in Nat, Cardinality(Newest(S, n)) < n
    PROVE  Newest(S, n) = S
  <1> DEFINE missing == S \ Newest(S, n)
  <1>1. Newest(S, n) \subseteq S
    BY DEF Newest
  <1>2. ASSUME missing # {} PROVE FALSE
    <2>1. missing \in SUBSET Ids
      OBVIOUS
    <2>2. PICK m \in missing : \A k \in missing : k <= m
      <3> HIDE DEF missing
      <3> QED
        BY <1>2, <2>1, OldestAndNewestExist
    <2> DEFINE newer == {k \in S : k > m}
    <2>3. newer \subseteq Newest(S, n) /\ Newest(S, n) \in SUBSET Ids
      <3>1. ASSUME NEW x \in newer PROVE x \in Newest(S, n)
        <4>1. m \in Nat /\ x \in Nat /\ x \in S /\ x > m
          BY IdsAreNumbers
        <4> QED
          BY <2>2, <4>1
      <3> QED
        BY <1>1, <3>1
    <2>4. /\ Cardinality(newer) <= Cardinality(Newest(S, n))
          /\ Cardinality(newer) \in Nat /\ Cardinality(Newest(S, n)) \in Nat
      BY <2>3, MessagesAreFinite, FS_Subset, FS_CardinalityType
    <2>5. ~(Cardinality(newer) < n)
      BY <2>2 DEF Newest
    <2> QED
      BY <2>4, <2>5
  <1> QED
    BY <1>1, <1>2

(***************************************************************************)
(* They are some, if there are any and n is positive.                      *)
(***************************************************************************)
LEMMA NewestOfSomeAreSome ==
    ASSUME NEW S \in SUBSET Ids, S # {}, NEW n \in Nat, n > 0
    PROVE  Newest(S, n) # {}
  <1>1. PICK m \in S : \A k \in S : k <= m
    BY OldestAndNewestExist
  <1>2. {k \in S : k > m} = {}
    <2>1. ASSUME NEW x \in S PROVE ~(x > m)
      <3>1. m \in Nat /\ x \in Nat /\ x <= m
        BY <1>1, IdsAreNumbers
      <3> QED
        BY <3>1
    <2> QED
      BY <2>1
  <1>3. m \in Newest(S, n)
    BY <1>2, FS_EmptySet DEF Newest
  <1> QED
    BY <1>3
-----------------------------------------------------------------------------
(***************************************************************************)
(* A page holds everything on the channel from its oldest message up to    *)
(* the cursor, and the next cursor is that oldest message, if there is     *)
(* anything before it.                                                     *)
(***************************************************************************)
LEMMA PageIsABlock ==
    ASSUME TypeOK, NEW cursor \in Ids \cup {None}
    PROVE  /\ PageBefore(cursor) \subseteq Older(cursor) /\ Older(cursor) \subseteq Ids
           /\ \A k \in PageBefore(cursor) :
                 \A m \in Older(cursor) : m > k => m \in PageBefore(cursor)
           /\ \/ NextBefore(cursor) = None /\ PageBefore(cursor) = Older(cursor)
              \/ /\ NextBefore(cursor) \in PageBefore(cursor)
                 /\ \A k \in PageBefore(cursor) : NextBefore(cursor) <= k
  <1>1. Older(cursor) \in SUBSET Ids /\ PageBefore(cursor) \subseteq Older(cursor)
    BY DEF TypeOK, Older, PageBefore, Newest
  <1>2. ASSUME NEW k \in PageBefore(cursor), NEW m \in Older(cursor), m > k
        PROVE  m \in PageBefore(cursor)
    BY <1>1, <1>2, Sizes, NewestHasTheNewer DEF PageBefore
  <1>3. ASSUME PageBefore(cursor) # Older(cursor)
        PROVE  /\ NextBefore(cursor) \in PageBefore(cursor)
               /\ \A k \in PageBefore(cursor) : NextBefore(cursor) <= k
    <2>1. PageBefore(cursor) # {}
      <3>1. Older(cursor) # {}
        BY <1>1, <1>3
      <3> QED
        BY <1>1, <3>1, Sizes, NewestOfSomeAreSome DEF PageBefore
    <2>2. \E m \in PageBefore(cursor) : \A k \in PageBefore(cursor) : m <= k
      BY <1>1, <2>1, OldestAndNewestExist
    <2> QED
      BY <1>3, <2>2 DEF NextBefore
  <1>4. PageBefore(cursor) = Older(cursor) => NextBefore(cursor) = None
    BY DEF NextBefore
  <1> QED
    BY <1>1, <1>2, <1>3, <1>4

(* What is returned has been collected. *)
LEMMA KeptIsCollected ==
    ASSUME NEW collected
    PROVE  Kept(collected) \subseteq collected
  BY DEF Kept, Newest
-----------------------------------------------------------------------------
(***************************************************************************)
(* A fetch starts with nothing collected and no cursor.                    *)
(***************************************************************************)
LEMMA FetchStart == Init => IInv
  <1> SUFFICES ASSUME Init PROVE IInv
    OBVIOUS
  <1> USE Sizes, NoneIsNoId DEF Init
  <1>1. TypeOK
    <2>1. newest \in Nat /\ newest <= MaxId
      OBVIOUS
    <2>2. live \subseteq Ids
      BY <2>1 DEF Ids
    <2>3. 0 \in 0 .. MaxRetries /\ 0 \in 0 .. MaxPages
      OBVIOUS
    <2> QED
      BY <2>2, <2>3 DEF TypeOK
  <1> QED
    BY <1>1 DEF IInv, LoopRuns, CollectedFromCursor, CutoffSeen, FetchedIsKept, Fetched,
                   FailureIsEmpty

(***************************************************************************)
(* What is published during a fetch is not among the messages that were    *)
(* there throughout.                                                       *)
(***************************************************************************)
LEMMA PublishKeeps ==
    ASSUME IInv, pc # "done", Publish
    PROVE  IInv'
  <1> USE Sizes DEF IInv, Publish, arguments
  <1>1. TypeOK'
    BY DEF TypeOK, Ids
  <1>2. LoopRuns' /\ CollectedFromCursor' /\ FailureIsEmpty'
    BY DEF LoopRuns, CollectedFromCursor, FailureIsEmpty
  <1>3. CutoffSeen'
    BY DEF CutoffSeen, TooOld
  <1>4. FetchedIsKept'
    BY NoneIsNoId DEF LoopRuns, FetchedIsKept, Fetched
  <1> QED
    BY <1>1, <1>2, <1>3, <1>4

(***************************************************************************)
(* What is deleted leaves them; what was collected of it stays collected.  *)
(***************************************************************************)
LEMMA RemoveKeeps ==
    ASSUME IInv, pc # "done", Remove
    PROVE  IInv'
  <1> USE DEF IInv, Remove, arguments
  <1>1. TypeOK'
    BY DEF TypeOK
  <1>2. LoopRuns' /\ CollectedFromCursor' /\ FailureIsEmpty'
    BY DEF LoopRuns, CollectedFromCursor, FailureIsEmpty
  <1>3. CutoffSeen'
    BY DEF CutoffSeen, TooOld
  <1>4. FetchedIsKept'
    BY NoneIsNoId DEF LoopRuns, FetchedIsKept, Fetched
  <1> QED
    BY <1>1, <1>2, <1>3, <1>4

(***************************************************************************)
(* A page extends the block that was collected down to the next cursor.    *)
(***************************************************************************)
LEMMA PageArrivesKeeps ==
    ASSUME IInv, PageArrives
    PROVE  IInv'
  <1> DEFINE page == PageBefore(before)
  <1> USE Sizes, NoneIsNoId DEF IInv, channel, arguments
  <1>1. /\ pc = "requesting" /\ posts' = posts \cup page /\ pages' = pages + 1
        /\ before' = NextBefore(before) /\ cutoff' = (\E m \in page : TooOld(m)) /\ attempt' = 0
        /\ live' = live /\ newest' = newest /\ steady' = steady /\ cap' = cap /\ since' = since
    BY DEF PageArrives
  <1>2. \/ /\ pages' < MaxPages /\ before' # None /\ pc' = "waiting"
           /\ outcome' = outcome /\ result' = result
        \/ pc' = "done" /\ outcome' = "fetched" /\ result' = Kept(posts')
    BY DEF PageArrives, More, Finish
  <1>3. /\ page \subseteq Older(before) /\ Older(before) \subseteq Ids
        /\ \A k \in page : \A m \in Older(before) : m > k => m \in page
        /\ \/ before' = None /\ page = Older(before)
           \/ before' \in page /\ \A k \in page : before' <= k
    BY <1>1, PageIsABlock DEF TypeOK
  <1>4. result = {} /\ outcome = None /\ pages < MaxPages /\ pages \in Nat
    BY <1>1 DEF LoopRuns, TypeOK
  <1> HIDE DEF page
  <1>5. TypeOK'
    <2>1. posts' \subseteq Ids /\ before' \in Ids \cup {None} /\ pages' \in 0 .. MaxPages
      BY <1>1, <1>3, <1>4 DEF TypeOK
    <2>2. result' \subseteq posts'
      BY <1>2, <1>4, KeptIsCollected
    <2> QED
      BY <1>1, <1>2, <1>4, <2>1, <2>2 DEF TypeOK
  <1>6. LoopRuns'
    BY <1>1, <1>2, <1>4 DEF LoopRuns
  <1>7. CollectedFromCursor'
    <2>1. ASSUME before' # None, NEW k \in posts' PROVE k >= before'
      <3>1. before' \in page /\ before' \in Ids /\ k \in Nat /\ before' \in Nat
        BY <1>1, <1>3, <2>1, IdsAreNumbers DEF TypeOK
      <3>2. CASE k \in page
        BY <1>3, <2>1, <3>1, <3>2
      <3>3. CASE k \in posts /\ k \notin page
        <4>1. before # None
          <5>1. pages > 0
            BY <1>4, <3>3 DEF LoopRuns
          <5> QED
            BY <1>1, <5>1 DEF LoopRuns
        <4>2. k >= before /\ before' < before /\ before \in Nat
          BY <1>3, <3>1, <3>3, <4>1, IdsAreNumbers DEF Older, CollectedFromCursor, TypeOK
        <4> QED
          BY <3>1, <4>2
      <3> QED
        BY <1>1, <3>2, <3>3
    <2>2. ASSUME NEW m \in steady, before' = None \/ m >= before' PROVE m \in posts'
      <3>1. CASE m \in Older(before)
        <4>1. CASE before' = None
          BY <1>1, <1>3, <3>1, <4>1, IdsAreNumbers
        <4>2. CASE before' # None /\ m # before'
          <5>1. m \in Nat /\ before' \in Nat /\ before' \in page
            BY <1>3, <3>1, <4>2, IdsAreNumbers
          <5>2. m > before'
            BY <2>2, <4>2, <5>1
          <5> QED
            BY <1>1, <1>3, <3>1, <5>1, <5>2
        <4>3. CASE m = before' /\ before' # None
          BY <1>1, <1>3, <4>3
        <4> QED
          BY <4>1, <4>2, <4>3
      <3>2. CASE m \notin Older(before)
        <4>1. m \in live /\ m \in Nat /\ before # None /\ before \in Nat
          BY <3>2, IdsAreNumbers DEF Older, TypeOK
        <4>2. m >= before /\ pages > 0
          BY <1>4, <3>2, <4>1 DEF Older, LoopRuns
        <4> QED
          BY <1>1, <4>2 DEF CollectedFromCursor
      <3> QED
        BY <3>1, <3>2
    <2> QED
      BY <1>1, <2>1, <2>2 DEF CollectedFromCursor
  <1>8. CutoffSeen' /\ FetchedIsKept' /\ FailureIsEmpty'
    <2>1. CutoffSeen'
      BY <1>1 DEF CutoffSeen, TooOld
    <2>2. FetchedIsKept'
      BY <1>1, <1>2, <1>4 DEF FetchedIsKept, Fetched, Kept, TooOld
    <2>3. FailureIsEmpty'
      BY <1>2, <1>4 DEF FailureIsEmpty
    <2> QED
      BY <2>1, <2>2, <2>3
  <1> QED
    BY <1>5, <1>6, <1>7, <1>8

(***************************************************************************)
(* The loop ends on an old page or on a failure: a failed first page       *)
(* returns nothing, a later one what was collected.                        *)
(***************************************************************************)
LEMMA LoopEndsKeeps ==
    ASSUME IInv, PageIsOld \/ PageFails \/ PageIsMalformed
    PROVE  IInv'
  <1> USE Sizes, NoneIsNoId DEF IInv, channel, arguments
  <1>1. /\ pc = "requesting" /\ pc' = "done"
        /\ UNCHANGED <<live, newest, steady, cap, since, before, posts, cutoff>>
        /\ pages' \in {pages, pages + 1} /\ attempt' \in {0, attempt}
        /\ pages' = pages \/ pages > 0
    BY DEF PageIsOld, PageFails, PageIsMalformed, Finish, GivesUp
  <1>2. \/ outcome' = "fetched" /\ result' = Kept(posts) /\ pages > 0
        \/ outcome' \in {"error", "not_found"} /\ result' = result /\ ~(pages > 0)
        \/ outcome' = "raised" /\ result' = result
    BY DEF PageIsOld, PageFails, PageIsMalformed, Finish, GivesUp
  <1>3. result = {} /\ pages < MaxPages /\ pages \in Nat
    BY <1>1 DEF LoopRuns, TypeOK
  <1>4. TypeOK'
    BY <1>1, <1>2, <1>3, KeptIsCollected DEF TypeOK
  <1>5. LoopRuns'
    BY <1>1, <1>3 DEF LoopRuns
  <1>6. CollectedFromCursor' /\ CutoffSeen'
    BY <1>1, <1>3 DEF CollectedFromCursor, CutoffSeen, TooOld, LoopRuns
  <1>7. FetchedIsKept'
    BY <1>1, <1>2, <1>3 DEF FetchedIsKept, Fetched, Kept, TooOld
  <1>8. FailureIsEmpty'
    BY <1>1, <1>2, <1>3 DEF FailureIsEmpty, LoopRuns
  <1> QED
    BY <1>4, <1>5, <1>6, <1>7, <1>8

(***************************************************************************)
(* Sleeping, failing a try and trying again collect nothing.               *)
(***************************************************************************)
LEMMA WaitingKeeps ==
    ASSUME IInv, NextPage \/ RequestFails \/ Retry
    PROVE  IInv'
  <1> USE Sizes DEF IInv, NextPage, RequestFails, Retry, channel, arguments
  <1>1. TypeOK'
    BY DEF TypeOK, LoopRuns
  <1>2. LoopRuns'
    BY DEF TypeOK, LoopRuns
  <1> QED
    BY <1>1, <1>2 DEF CollectedFromCursor, CutoffSeen, TooOld, FetchedIsKept, Fetched, Kept,
                      FailureIsEmpty

(***************************************************************************)
(* Every step keeps the invariant.                                         *)
(***************************************************************************)
LEMMA FetchStep == IInv /\ [Next]_vars => IInv'
  <1> SUFFICES ASSUME IInv, [Next]_vars PROVE IInv'
    OBVIOUS
  <1>1. CASE UNCHANGED vars
    BY <1>1 DEF vars, channel, arguments, IInv, TypeOK, LoopRuns, CollectedFromCursor, CutoffSeen,
                TooOld, FetchedIsKept, Fetched, Kept, FailureIsEmpty
  <1>2. CASE pc # "done" /\ (Step \/ Publish \/ Remove)
    BY <1>2, PublishKeeps, RemoveKeeps, PageArrivesKeeps, LoopEndsKeeps, WaitingKeeps DEF Step
  <1> QED
    BY <1>1, <1>2 DEF Next, Returned

(***************************************************************************)
(* The invariant of the loop holds throughout.                             *)
(***************************************************************************)
THEOREM FetchInvariant == Spec => []IInv
  BY FetchStart, FetchStep, PTL DEF Spec

(***************************************************************************)
(* Every variable has its type, in particular no page is requested beyond  *)
(* MAX_PAGES and no try is made beyond the retries.                        *)
(***************************************************************************)
THEOREM FetchTypes == Spec => []TypeOK
  BY FetchInvariant, PTL DEF IInv

(***************************************************************************)
(* A ParserError is raised only by a fetch that has collected nothing: the *)
(* failure that run_ingest records hides no posts.                         *)
(***************************************************************************)
THEOREM FailuresHideNothing == Spec => []FailureIsEmpty
  BY FetchInvariant, PTL DEF IInv

(***************************************************************************)
(* Between two posts that a fetch returns there is none it has skipped,    *)
(* provided that post was on the channel throughout: the pages form one    *)
(* block, and the cap cuts at its old end.                                 *)
(***************************************************************************)
THEOREM NothingIsSkipped == Spec => []NoHoles
  <1>1. IInv => NoHoles
    <2> SUFFICES ASSUME IInv, Fetched, NEW m \in steady, NEW k \in result, k < m, ~TooOld(m)
                 PROVE  m \in result
      BY DEF NoHoles
    <2> DEFINE window == {x \in posts : ~TooOld(x)}
    <2>1. /\ window \in SUBSET Ids /\ cap \in Nat /\ pages > 0 /\ m \in Nat
          /\ result = Newest(window, cap) /\ k \in window /\ k \in Nat /\ k \in posts
      BY Sizes, IdsAreNumbers DEF IInv, TypeOK, FetchedIsKept, Kept, Newest
    <2>2. m \in posts
      <3>1. before = None \/ (before \in Nat /\ k >= before)
        BY <2>1, IdsAreNumbers DEF IInv, TypeOK, CollectedFromCursor
      <3>2. before = None \/ m >= before
        BY <2>1, <3>1
      <3> QED
        BY <2>1, <3>2 DEF IInv, CollectedFromCursor
    <2>3. m \in window /\ m > k
      BY <2>1, <2>2
    <2> HIDE DEF window
    <2> QED
      BY <2>1, <2>3, NewestHasTheNewer
  <1> QED
    BY <1>1, FetchInvariant, PTL

(***************************************************************************)
(* A fetch that stopped by itself below the cap returns the whole window:  *)
(* all that was there throughout and is not older than the cutoff, and no  *)
(* dated post that is older.                                               *)
(***************************************************************************)
THEOREM TheWindowIsReturned == Spec => []WindowComplete
  <1>1. IInv => WindowComplete
    <2> SUFFICES ASSUME IInv, Fetched, StoppedByItself, Cardinality(result) < cap, NEW m \in Ids
                 PROVE  /\ m \in steady /\ (since = None \/ m >= since) => m \in result
                        /\ m \in result /\ Dated(m) => since = None \/ m >= since
      BY DEF WindowComplete
    <2> DEFINE window == {x \in posts : ~TooOld(x)}
    <2>1. /\ window \in SUBSET Ids /\ cap \in Nat /\ pages > 0 /\ m \in Nat
          /\ result = Newest(window, cap) /\ since \in Nat \cup {None}
      BY Sizes, IdsAreNumbers, CutoffsAreIds DEF IInv, TypeOK, FetchedIsKept, Kept
    <2>2. result = window
      <3> HIDE DEF window
      <3> QED
        BY <2>1, FewerThanAskedAreAll
    <2>3. ASSUME m \in steady, since = None \/ m >= since PROVE m \in result
      <3>1. ~TooOld(m)
        BY <2>1, <2>3 DEF TooOld
      <3>2. before = None \/ m >= before
        <4>1. CASE cutoff
          <5>1. PICK t \in posts : TooOld(t)
            BY <4>1 DEF IInv, CutoffSeen
          <5>2. t \in Nat /\ since \in Nat /\ t < since /\ m >= since
            BY <2>1, <2>3, <5>1, IdsAreNumbers DEF TooOld, IInv, TypeOK
          <5>3. before = None \/ (before \in Nat /\ t >= before)
            BY IdsAreNumbers DEF IInv, TypeOK, CollectedFromCursor
          <5> QED
            BY <2>1, <5>2, <5>3
        <4>2. CASE before = None
          BY <4>2
        <4> QED
          BY <4>1, <4>2 DEF StoppedByItself
      <3>3. m \in posts
        BY <2>1, <2>3, <3>2 DEF IInv, CollectedFromCursor
      <3> QED
        BY <2>2, <3>1, <3>3
    <2>4. ASSUME m \in result, Dated(m) PROVE since = None \/ m >= since
      BY <2>1, <2>2, <2>4 DEF TooOld, Dated
    <2> QED
      BY <2>3, <2>4
  <1> QED
    BY <1>1, FetchInvariant, PTL
=============================================================================
