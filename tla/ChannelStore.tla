---------------------------- MODULE ChannelStore ----------------------------
(***************************************************************************)
(* The channels, posts and snapshot tables, and the calls of               *)
(* services/channels.py on them.  A session is one AsyncSession with the   *)
(* call it serves; sessions run concurrently, each in a READ COMMITTED     *)
(* transaction of PostgreSQL: a SELECT sees committed rows only, an UPDATE *)
(* or DELETE of a row, and an INSERT of a username, wait for a transaction *)
(* that has already written that row.                                      *)
(***************************************************************************)
EXTENDS ChannelRow, Sequences

CONSTANTS
    Usernames,  \* normalized channel names
    Sessions,
    Messages,   \* message ids a channel's page may show
    Hashes,     \* values of Post.content_hash
    Values      \* metric tuples, and counter tuples, as one value each

ASSUME NoneIsNoName == None \notin Usernames \cup Sessions
ASSUME NoneIsNoData == None \notin Hashes \cup Values \cup Messages
ASSUME NoneIsNoPoint == None \notin [at : Times, value : Values]

VARIABLES
    rows,       \* channels: the committed row of a username, or None
    posts,      \* posts: content_hash by channel id and message id, or None
    metrics,    \* post_metric_snapshots of a post, in the order of their ids
    counters,   \* channel_snapshots of a channel, in the order of their ids
    lock,       \* the session whose open transaction wrote the row of a username
    pc,         \* where each session is
    user,       \* the username its call is about
    loaded,     \* the row as the session loaded it
    object,     \* the Channel object as edited in memory
    result      \* what the session's last call came to

tables == <<rows, posts, metrics, counters>>
storeVars == <<rows, posts, metrics, counters, lock, pc, user, loaded, object, result>>

Points == [at : Times, value : Values]

StorePcs == {"idle", "adding", "marking"}
StoreResults == {"none", "ok", "already_exists", "channel_not_found",
                 "integrity_error", "stale_data"}

StoreInit ==
    /\ rows = [u \in Usernames |-> None]
    /\ posts = [i \in RowIds |-> [m \in Messages |-> None]]
    /\ metrics = [i \in RowIds |-> [m \in Messages |-> <<>>]]
    /\ counters = [i \in RowIds |-> <<>>]
    /\ lock = [u \in Usernames |-> None]
    /\ pc = [s \in Sessions |-> "idle"]
    /\ user = [s \in Sessions |-> None]
    /\ loaded = [s \in Sessions |-> None]
    /\ object = [s \in Sessions |-> None]
    /\ result = [s \in Sessions |-> "none"]
-----------------------------------------------------------------------------
(* Sessions and transactions. *)

(***************************************************************************)
(* A new primary key: one that no row has and no session remembers.  The   *)
(* sequence never repeats an id; nothing else compares ids.                *)
(***************************************************************************)
FreshIds == {i \in RowIds : /\ \A u \in Usernames : rows[u] # None => rows[u].id # i
                            /\ \A s \in Sessions : loaded[s] # None => loaded[s].id # i}

(* Mutant: the session is not closed when its call ends. *)
EndUnclosed(s, outcome) ==
    /\ pc' = [pc EXCEPT ![s] = "idle"]
    /\ user' = [user EXCEPT ![s] = None]
    /\ loaded' = [loaded EXCEPT ![s] = None]
    /\ object' = [object EXCEPT ![s] = None]
    /\ result' = [result EXCEPT ![s] = outcome]
    /\ UNCHANGED lock

(* The call of s returns or raises, its transaction commits or rolls back. *)
End(s, outcome) ==
    /\ pc' = [pc EXCEPT ![s] = "idle"]
    /\ user' = [user EXCEPT ![s] = None]
    /\ loaded' = [loaded EXCEPT ![s] = None]
    /\ object' = [object EXCEPT ![s] = None]
    /\ result' = [result EXCEPT ![s] = outcome]
    /\ lock' = [u \in Usernames |-> IF lock[u] = s THEN None ELSE lock[u]]

(* _find_by_username found row (or None); the call continues at step. *)
Loaded(s, u, row, step) ==
    /\ pc' = [pc EXCEPT ![s] = step]
    /\ user' = [user EXCEPT ![s] = u]
    /\ loaded' = [loaded EXCEPT ![s] = row]
    /\ object' = [object EXCEPT ![s] = row]
    /\ result' = [result EXCEPT ![s] = "none"]
    /\ UNCHANGED lock

(* The transaction of s may write the row: nobody else's has. *)
Free(s) == lock[user[s]] \in {None, s}

(* Mutant: the row is matched by its username, not by its id. *)
StaleByName(s) == lock[user[s]] # s /\ rows[user[s]] = None

(***************************************************************************)
(* The UPDATE of s would match no row: the one it loaded is gone.  A row s *)
(* inserted itself is held by s, so it cannot be.                          *)
(***************************************************************************)
Stale(s) ==
    /\ lock[user[s]] # s
    /\ ~(rows[user[s]] # None /\ rows[user[s]].id = loaded[s].id)

Stored(s) == IF rows[user[s]] = None THEN loaded[s] ELSE rows[user[s]]

Publish(s) ==
    rows' = [rows EXCEPT ![user[s]] = Written(Stored(s), loaded[s], object[s])]
-----------------------------------------------------------------------------
(* add_channel *)

AddLookup(s, u) ==
    /\ pc[s] = "idle"
    /\ rows[u] = None
    /\ Loaded(s, u, None, "adding")
    /\ UNCHANGED tables

AddRejected(s, u) ==
    /\ pc[s] = "idle"
    /\ rows[u] # None
    /\ result' = [result EXCEPT ![s] = "already_exists"]
    /\ UNCHANGED <<tables, lock, pc, user, loaded, object>>

AddCommit(s) ==
    /\ pc[s] = "adding"
    /\ rows[user[s]] = None
    /\ lock[user[s]] = None
    /\ \E i \in FreshIds : rows' = [rows EXCEPT ![user[s]] = Created(i)]
    /\ End(s, "ok")
    /\ UNCHANGED <<posts, metrics, counters>>

(* The INSERT of add_channel or of get_or_create_channel meets a committed row. *)
InsertRaises(s) ==
    /\ pc[s] \in {"adding", "inserting"}
    /\ rows[user[s]] # None
    /\ End(s, "integrity_error")
    /\ UNCHANGED tables
-----------------------------------------------------------------------------
(* mark_pending *)

MarkLookup(s, u) ==
    /\ pc[s] = "idle"
    /\ rows[u] # None
    /\ Loaded(s, u, rows[u], "marking")
    /\ UNCHANGED tables

MarkUnknown(s, u) ==
    /\ pc[s] = "idle"
    /\ rows[u] = None
    /\ result' = [result EXCEPT ![s] = "channel_not_found"]
    /\ UNCHANGED <<tables, lock, pc, user, loaded, object>>

MarkCommit(s) ==
    /\ pc[s] = "marking"
    /\ LET marked == Pending(loaded[s]) IN
       \/ /\ marked = loaded[s]          \* no column changed: no UPDATE is sent
          /\ End(s, "ok")
          /\ UNCHANGED rows
       \/ /\ marked # loaded[s]
          /\ Free(s)
          /\ Stale(s)
          /\ End(s, "stale_data")
          /\ UNCHANGED rows
       \/ /\ marked # loaded[s]
          /\ Free(s)
          /\ ~Stale(s)
          /\ rows' = [rows EXCEPT ![user[s]] = Written(Stored(s), loaded[s], marked)]
          /\ End(s, "ok")
    /\ UNCHANGED <<posts, metrics, counters>>
-----------------------------------------------------------------------------
(* Mutant: the foreign keys of the snapshot tables do not cascade. *)
DeleteUncascaded(u) ==
    /\ rows[u] # None
    /\ lock[u] = None
    /\ posts' = [posts EXCEPT ![rows[u].id] = [m \in Messages |-> None]]
    /\ rows' = [rows EXCEPT ![u] = None]
    /\ UNCHANGED <<metrics, counters, lock, pc, user, loaded, object, result>>

(***************************************************************************)
(* delete_channel, one statement and its commit.  The foreign keys cascade *)
(* to posts and both snapshot tables.                                      *)
(***************************************************************************)
Delete(u) ==
    /\ rows[u] # None
    /\ lock[u] = None
    /\ LET i == rows[u].id IN
       /\ posts' = [posts EXCEPT ![i] = [m \in Messages |-> None]]
       /\ metrics' = [metrics EXCEPT ![i] = [m \in Messages |-> <<>>]]
       /\ counters' = [counters EXCEPT ![i] = <<>>]
    /\ rows' = [rows EXCEPT ![u] = None]
    /\ UNCHANGED <<lock, pc, user, loaded, object, result>>
=============================================================================
