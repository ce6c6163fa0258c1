------------------------------ MODULE TmeFetch ------------------------------
(***************************************************************************)
(* fetch_channel of parser/tme.py: one fetch of a channel's history, page  *)
(* by page from the newest, with the retries of each request.  Meanwhile   *)
(* the channel publishes and deletes messages.  Ids grow with time; a      *)
(* message's date is its id, so a cutoff is an id too.                     *)
(***************************************************************************)
EXTENDS Naturals, FiniteSets

CONSTANTS
    MaxId,          \* bound: ids of messages
    Undated,        \* messages whose page shows no date
    PageSize,       \* messages on a page of t.me/s/
    MaxPages,       \* _MAX_PAGES
    MaxRetries,     \* _MAX_RETRIES
    Caps,           \* values of max_posts
    Cutoffs,        \* values of since
    None

Ids == 1 .. MaxId

ASSUME SizesArePositive == {MaxId, PageSize, MaxPages} \cup Caps \subseteq Nat \ {0}
ASSUME RetriesAreNat == MaxRetries \in Nat
ASSUME CutoffsAreIds == Undated \subseteq Ids /\ Cutoffs \subseteq Ids \cup {None}
ASSUME NoneIsNoId == None \notin Nat \cup {"fetched", "error", "not_found", "raised"}

VARIABLES
    live,           \* the messages of the channel
    newest,         \* the last id published
    steady,         \* history: the messages on the channel during the whole fetch
    cap, since,     \* the arguments
    pc, attempt,    \* the request of a page, and which try of it
    before, posts, pages, cutoff,   \* local variables of fetch_channel
    outcome, result

channel == <<live, newest, steady>>
arguments == <<cap, since>>
vars == <<channel, arguments, pc, attempt, before, posts, pages, cutoff, outcome, result>>

Init ==
    /\ newest \in 0 .. MaxId
    /\ live = 1 .. newest
    /\ steady = live
    /\ cap \in Caps
    /\ since \in Cutoffs
    /\ pc = "requesting"
    /\ attempt = 0
    /\ before = None
    /\ posts = {}
    /\ pages = 0
    /\ cutoff = FALSE
    /\ outcome = None
    /\ result = {}
-----------------------------------------------------------------------------
(* The channel and its web preview *)

Publish ==
    /\ newest < MaxId
    /\ newest' = newest + 1
    /\ live' = live \cup {newest'}
    /\ UNCHANGED <<steady, arguments, pc, attempt, before, posts, pages, cutoff, outcome, result>>

Remove ==
    /\ \E m \in live : live' = live \ {m} /\ steady' = steady \ {m}
    /\ UNCHANGED <<newest, arguments, pc, attempt, before, posts, pages, cutoff, outcome, result>>

Newest(S, n) == {m \in S : Cardinality({k \in S : k > m}) < n}

Older(cursor) == {m \in live : cursor = None \/ m < cursor}

PageBefore(cursor) == Newest(Older(cursor), PageSize)

(* data-before of the "load more" link, if there is one *)
NextBefore(cursor) ==
    IF PageBefore(cursor) = Older(cursor) THEN None
    ELSE CHOOSE m \in PageBefore(cursor) : \A k \in PageBefore(cursor) : m <= k
-----------------------------------------------------------------------------
(* Mutant: a post without a date is too old. *)
TooOldUndated(m) == since # None /\ (m < since \/ m \in Undated)

TooOld(m) == since # None /\ m < since /\ m \notin Undated

(* Mutant: the oldest posts are kept. *)
KeptOldest(collected) ==
    LET window == {m \in collected : ~TooOld(m)}
    IN  {m \in window : Cardinality({k \in window : k < m}) < cap}

(* The date filter and the cap of the returned posts *)
Kept(collected) == Newest({m \in collected : ~TooOld(m)}, cap)

Finish(collected) ==
    /\ pc' = "done"
    /\ outcome' = "fetched"
    /\ result' = Kept(collected)

(* Mutant: one page too many. *)
MoreOffByOne(cursor, collected, count, old) ==
    cursor # None /\ Cardinality(collected) < cap /\ ~old /\ count <= MaxPages

(* The condition of the pagination loop *)
More(cursor, collected, count, old) ==
    cursor # None /\ Cardinality(collected) < cap /\ ~old /\ count < MaxPages

(* A page arrives: the first, or one with posts not seen yet. *)
PageArrives ==
    LET page == PageBefore(before) IN
    /\ pc = "requesting"
    /\ pages = 0 \/ page \ posts # {}
    /\ posts' = posts \cup page
    /\ pages' = pages + 1
    /\ before' = NextBefore(before)
    /\ cutoff' = \E m \in page : TooOld(m)
    /\ attempt' = 0
    /\ IF More(before', posts', pages', cutoff')
       THEN pc' = "waiting" /\ UNCHANGED <<outcome, result>>
       ELSE Finish(posts')
    /\ UNCHANGED <<channel, arguments>>

(* A page with nothing new ends the loop. *)
PageIsOld ==
    /\ pc = "requesting"
    /\ pages > 0
    /\ PageBefore(before) \subseteq posts
    /\ pages' = pages + 1
    /\ attempt' = 0
    /\ Finish(posts)
    /\ UNCHANGED <<channel, arguments, before, posts, cutoff>>

(* _PAGE_DELAY_SECONDS have passed. *)
NextPage ==
    /\ pc = "waiting"
    /\ pc' = "requesting"
    /\ UNCHANGED <<channel, arguments, attempt, before, posts, pages, cutoff, outcome, result>>
-----------------------------------------------------------------------------
(* fetch_channel_page *)

(* The request fails, or is answered with an unexpected status. *)
RequestFails ==
    /\ pc = "requesting"
    /\ attempt < MaxRetries
    /\ pc' = "sleeping"
    /\ UNCHANGED <<channel, arguments, attempt, before, posts, pages, cutoff, outcome, result>>

(* Mutant: the attempts are not counted. *)
RetryUncounted ==
    /\ pc = "sleeping"
    /\ pc' = "requesting"
    /\ UNCHANGED <<channel, arguments, attempt, before, posts, pages, cutoff, outcome, result>>

Retry ==
    /\ pc = "sleeping"
    /\ pc' = "requesting"
    /\ attempt' = attempt + 1
    /\ UNCHANGED <<channel, arguments, before, posts, pages, cutoff, outcome, result>>

(* Mutant: a failure of any page fails the fetch. *)
GivesUpAlways(failure) ==
    /\ pc' = "done"
    /\ outcome' = failure
    /\ UNCHANGED result

(* A ParserError fails the fetch on its first page and ends it on a later one. *)
GivesUp(failure) ==
    IF pages > 0 THEN Finish(posts)
    ELSE /\ pc' = "done"
         /\ outcome' = failure
         /\ UNCHANGED result

PageFails ==
    /\ pc = "requesting"
    /\ \/ attempt = MaxRetries /\ GivesUp("error")      \* FetchError
       \/ GivesUp("not_found")                          \* redirected or 404
    /\ UNCHANGED <<channel, arguments, attempt, before, posts, pages, cutoff>>

(* A page that parse_channel_page cannot read raises no ParserError. *)
PageIsMalformed ==
    /\ pc = "requesting"
    /\ pc' = "done"
    /\ outcome' = "raised"
    /\ UNCHANGED <<channel, arguments, attempt, before, posts, pages, cutoff, result>>
-----------------------------------------------------------------------------
Step ==
    \/ PageArrives \/ PageIsOld \/ NextPage
    \/ RequestFails \/ Retry \/ PageFails \/ PageIsMalformed

Returned == pc = "done" /\ UNCHANGED vars

Next == Returned \/ (pc # "done" /\ (Step \/ Publish \/ Remove))

Spec == Init /\ [][Next]_vars

(* httpx times out, and the sleeps end. *)
FairSpec == Spec /\ WF_vars(Step)
-----------------------------------------------------------------------------
(***************************************************************************)
(* Every variable keeps its type; the loop runs at most MaxPages times.    *)
(***************************************************************************)
TypeOK ==
    /\ live \subseteq Ids /\ steady \subseteq live
    /\ newest \in 0 .. MaxId
    /\ cap \in Caps /\ since \in Cutoffs
    /\ pc \in {"requesting", "waiting", "sleeping", "done"}
    /\ attempt \in 0 .. MaxRetries
    /\ before \in Ids \cup {None}
    /\ posts \subseteq Ids
    /\ pages \in 0 .. MaxPages
    /\ cutoff \in BOOLEAN
    /\ outcome \in {None, "fetched", "error", "not_found", "raised"}
    /\ result \subseteq posts

Fetched == outcome = "fetched"

(***************************************************************************)
(* Whatever is published and deleted between two pages, and however the    *)
(* fetch ends, what it returns has no hole: a message newer than a         *)
(* returned one, and on the channel before the first page and until the    *)
(* end, is returned too, or was ruled out by its date.                     *)
(***************************************************************************)
NoHoles ==
    Fetched => \A m \in steady : (\E k \in result : k < m) => m \in result \/ TooOld(m)

(***************************************************************************)
(* A fetch that ends at the cutoff, or where the channel began, and below  *)
(* its caps, returns the whole window: every message that was there        *)
(* throughout and is not dated before since, and nothing dated before it.  *)
(***************************************************************************)
StoppedByItself == cutoff \/ before = None

Dated(m) == m \notin Undated

WindowComplete ==
    Fetched /\ StoppedByItself /\ Cardinality(result) < cap =>
        \A m \in Ids : /\ m \in steady /\ (since = None \/ m >= since) => m \in result
                       /\ m \in result /\ Dated(m) => since = None \/ m >= since

(***************************************************************************)
(* A ParserError is raised only by a fetch that has collected nothing: the *)
(* failure ingest_channel records never hides posts that were fetched.     *)
(***************************************************************************)
FailureIsEmpty == outcome \in {"error", "not_found"} => posts = {}

(***************************************************************************)
(* A fetch ends, though the channel may keep publishing.                   *)
(***************************************************************************)
FetchEnds == <>(pc = "done")
=============================================================================
