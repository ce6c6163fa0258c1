------------------------------- MODULE Digest -------------------------------
(***************************************************************************)
(* The digest of one channel: get_or_create_digest and peek_digest of      *)
(* services/ai/tasks.py on the table channel_digests.  Requests overlap    *)
(* and raise; posts are collected and edited, days pass and the channel is *)
(* deleted and added again while an LLM call is under way.                 *)
(***************************************************************************)
EXTENDS Naturals, FiniteSets

CONSTANTS
    Sessions,
    RowIds,
    None,
    MaxDay,         \* bound: days that pass
    Period          \* days

ASSUME PeriodIsPositive == MaxDay \in Nat /\ Period \in 1 .. MaxDay
ASSUME NoneIsNoId == None \notin RowIds
ASSUME SessionsAreFinite == IsFiniteSet(Sessions) /\ Sessions # {}

Days == 1 .. MaxDay

(* A post with a text is the day it was posted on: one for each will do.   *)
(* It begins on day Period: a whole period lies before it.                 *)
VARIABLES
    today,
    channel,        \* the id of the channel's row, or None
    stored,         \* its posts
    digests,        \* the posts each digest was made from, by channel and day
    pc, id, day, texts,     \* local variables of get_or_create_digest
    repeats,        \* history: the LLM's answers for a day that had its digest
    seen            \* history: what there was to digest since first asked for, by day

table == <<channel, stored, digests>>
locals == <<pc, id, day, texts>>
history == <<repeats, seen>>
vars == <<today, table, locals, history>>

Init ==
    /\ today = Period
    /\ channel \in RowIds
    /\ stored = {}
    /\ digests = <<>>
    /\ pc = [s \in Sessions |-> "idle"]
    /\ id = [s \in Sessions |-> None]
    /\ day = [s \in Sessions |-> 1]
    /\ texts = [s \in Sessions |-> {}]
    /\ repeats = [d \in Days |-> 0]
    /\ seen = <<>>
-----------------------------------------------------------------------------
NextDay ==
    /\ today < MaxDay
    /\ today' = today + 1
    /\ UNCHANGED <<table, locals, history>>

(* The posts there are to digest on a day *)
Wanted(posts, d) == {p \in posts : p <= d /\ d < p + Period}

(* A page brings posts, and what it says of those that are stored replaces *)
(* their text and date: one that has lost its text is out of the digest.   *)
Collect ==
    /\ channel # None
    /\ stored' \in SUBSET (1 .. today)
    /\ seen' = [d \in DOMAIN seen |-> seen[d] \cup {Wanted(stored', d)}]
    /\ UNCHANGED <<today, channel, digests, locals, repeats>>

(* Mutant: the digests of a deleted channel stay. *)
DeleteUncascaded ==
    /\ channel # None
    /\ channel' = None
    /\ stored' = {}
    /\ repeats' = [d \in Days |-> 0]
    /\ seen' = <<>>
    /\ UNCHANGED <<today, digests, locals>>

(* delete_channel, with ON DELETE CASCADE *)
Delete ==
    /\ channel # None
    /\ channel' = None
    /\ stored' = {}
    /\ digests' = [k \in {k \in DOMAIN digests : k[1] # channel} |-> digests[k]]
    /\ repeats' = [d \in Days |-> 0]
    /\ seen' = <<>>
    /\ UNCHANGED <<today, locals>>

Add ==
    /\ channel = None
    /\ channel' \in RowIds \ {id[s] : s \in Sessions}
    /\ UNCHANGED <<today, stored, digests, locals, history>>
-----------------------------------------------------------------------------
Returned(s) ==
    /\ pc' = [pc EXCEPT ![s] = "idle"]
    /\ id' = [id EXCEPT ![s] = None]
    /\ texts' = [texts EXCEPT ![s] = {}]
    /\ day' = [day EXCEPT ![s] = 1]

(* INSERT ... ON CONFLICT (k) DO UPDATE *)
Upserted(f, k, v) == [x \in DOMAIN f \cup {k} |-> IF x = k THEN v ELSE f[x]]

(* Mutant: the period ends at the start of today. *)
InPeriodUpToToday(d) == {p \in Days : p < d /\ p + Period >= d}

(* Posts from period_start until period_end, the start of tomorrow *)
InPeriod(d) == {p \in Days : p <= d /\ p + Period > d}

(* now is read before anything else. *)
Request(s) ==
    /\ pc[s] = "idle"
    /\ pc' = [pc EXCEPT ![s] = "looking"]
    /\ day' = [day EXCEPT ![s] = today]
    /\ UNCHANGED <<today, table, id, texts, history>>

LookUp(s) ==
    /\ pc[s] = "looking"
    /\ IF channel = None THEN Returned(s) /\ UNCHANGED history
       ELSE /\ pc' = [pc EXCEPT ![s] = "finding"]
            /\ id' = [id EXCEPT ![s] = channel]
            /\ seen' = IF day[s] \in DOMAIN seen THEN seen
                       ELSE Upserted(seen, day[s], {Wanted(stored, day[s])})
            /\ UNCHANGED <<day, texts, repeats>>
    /\ UNCHANGED <<today, table>>

(* Mutant: the cache is looked up with the present time, which never hits. *)
CachedNever(i, d) == {}

(* _find_cached_digest; what peek_digest shows of a channel on a day *)
Cached(i, d) == {digests[k] : k \in DOMAIN digests \cap {<<i, d>>}}

Find(s) ==
    /\ pc[s] = "finding"
    /\ IF Cached(id[s], day[s]) # {} THEN Returned(s)
       ELSE pc' = [pc EXCEPT ![s] = "reading"] /\ UNCHANGED <<id, day, texts>>
    /\ UNCHANGED <<today, table, history>>

ReadPosts(s) ==
    LET posts == IF channel = id[s] THEN stored \cap InPeriod(day[s]) ELSE {} IN
    /\ pc[s] = "reading"
    /\ IF posts = {} THEN Returned(s)
       ELSE /\ pc' = [pc EXCEPT ![s] = "asking"]
            /\ texts' = [texts EXCEPT ![s] = posts]
            /\ UNCHANGED <<id, day>>
    /\ UNCHANGED <<today, table, history>>

(* The LLM has answered; if there is a digest by now, once more.           *)
Paid(s) ==
    repeats' = IF channel = id[s] /\ <<id[s], day[s]>> \in DOMAIN digests
               THEN [repeats EXCEPT ![day[s]] = @ + 1] ELSE repeats

Answer(s) ==
    /\ pc[s] = "asking"
    /\ pc' = [pc EXCEPT ![s] = "writing"]
    /\ Paid(s)
    /\ UNCHANGED <<today, table, id, day, texts, seen>>

(* An answer that is no list of bullets *)
Malformed(s) ==
    /\ pc[s] = "asking"
    /\ Returned(s)
    /\ Paid(s)
    /\ UNCHANGED <<today, table, seen>>

(* AiUnavailableError *)
NoAnswer(s) ==
    /\ pc[s] = "asking"
    /\ Returned(s)
    /\ UNCHANGED <<today, table, history>>

(* The upsert and its commit; without the channel the foreign key fails. *)
Write(s) ==
    /\ pc[s] = "writing"
    /\ IF channel = id[s] THEN digests' = Upserted(digests, <<id[s], day[s]>>, texts[s])
       ELSE UNCHANGED digests
    /\ Returned(s)
    /\ UNCHANGED <<today, channel, stored, history>>

(* Any other exception, or the end of the process, at any await: what the  *)
(* LLM has answered is lost unless it was committed.                       *)
Raise(s) ==
    /\ pc[s] # "idle"
    /\ Returned(s)
    /\ UNCHANGED <<today, table, history>>
-----------------------------------------------------------------------------
GetOrCreate(s) ==
    \/ Request(s) \/ LookUp(s) \/ Find(s) \/ ReadPosts(s) \/ Answer(s)
    \/ Malformed(s) \/ NoAnswer(s) \/ Write(s) \/ Raise(s)

DigestNext ==
    \/ NextDay \/ Collect \/ Delete \/ Add
    \/ \E s \in Sessions : GetOrCreate(s)

Spec == Init /\ [][DigestNext]_vars
-----------------------------------------------------------------------------
(***************************************************************************)
(* Every variable keeps its type, and a digest is kept for the channel in  *)
(* the table only, not for one deleted during the LLM call.                *)
(***************************************************************************)
DigestInv ==
    /\ today \in Days
    /\ channel \in RowIds \cup {None}
    /\ stored \subseteq Days
    /\ DOMAIN digests \subseteq {channel} \X Days
    /\ \A k \in DOMAIN digests : digests[k] \in (SUBSET Days) \ {{}}
    /\ pc \in [Sessions -> {"idle", "looking", "finding", "reading", "asking", "writing"}]
    /\ id \in [Sessions -> RowIds \cup {None}]
    /\ day \in [Sessions -> Days]
    /\ texts \in [Sessions -> SUBSET Days]

(***************************************************************************)
(* tasks.py:27-30: the boundaries are pinned to the day, as otherwise      *)
(* every call "would ... never hit the cache".  Once the digest of a day   *)
(* is stored, the LLM answers for that channel and day only requests that  *)
(* had missed the cache before, whether their answers are then stored,     *)
(* malformed or lost.  (Until one is stored, each try pays again.)         *)
(***************************************************************************)
RepeatsBounded == \A d \in Days : repeats[d] < Cardinality(Sessions)

(***************************************************************************)
(* tasks.py:27: "so today's posts are always included".  Whichever of      *)
(* overlapping requests writes last, though midnight passes between and    *)
(* posts come and are edited, a digest is made of the posts of its period, *)
(* all as they were at one moment since it was first asked for: so of each *)
(* that was there all the while, and of none that never was.               *)
(***************************************************************************)
CoversWhatWasThere ==
    \A k \in DOMAIN digests : k[2] \in DOMAIN seen /\ digests[k] \in seen[k[2]]
=============================================================================
