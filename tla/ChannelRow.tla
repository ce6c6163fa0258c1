----------------------------- MODULE ChannelRow -----------------------------
(***************************************************************************)
(* One row of the channels table, and the three ways the program edits the *)
(* Channel object it loaded from it.  title, description and avatar_url    *)
(* are left out: no guard reads them.                                      *)
(***************************************************************************)
EXTENDS Naturals

CONSTANTS
    RowIds,     \* primary keys of the channels table
    MaxClock,   \* bound: how often ingest_channel may read the clock
    None        \* Python's None and SQL's NULL

FailedStatuses == {"error", "not_found", "private"}
Statuses == {"pending", "active"} \cup FailedStatuses

Times == 1 .. MaxClock

(***************************************************************************)
(* last_error is abstracted to the failure it describes.                   *)
(***************************************************************************)
Row == [id : RowIds,
        status : Statuses,
        fetchStatus : Statuses \cup {None},
        failures : Nat,
        error : FailedStatuses \cup {None},
        fetchAt : Times \cup {None}]

ASSUME MaxClockIsNat == MaxClock \in Nat
ASSUME NoneIsNoRow == None \notin Row
ASSUME NoneIsNoStatus == None \notin Statuses
-----------------------------------------------------------------------------
Created(id) == [id |-> id, status |-> "pending", fetchStatus |-> None,
                failures |-> 0, error |-> None, fetchAt |-> None]

Pending(row) == [row EXCEPT !.status = "pending", !.error = None]

(* Mutant: a status that the check constraint of the table does not allow. *)
FailedMisspelt(row, status, time) ==
    [id |-> row.id, status |-> "failed", fetchStatus |-> status,
     failures |-> row.failures + 1, error |-> status, fetchAt |-> time]

Failed(row, status, time) ==
    [id |-> row.id, status |-> status, fetchStatus |-> status,
     failures |-> row.failures + 1, error |-> status, fetchAt |-> time]

Succeeded(row, time) ==
    [id |-> row.id, status |-> "active", fetchStatus |-> "active",
     failures |-> 0, error |-> None, fetchAt |-> time]

(***************************************************************************)
(* What the UPDATE of a flush leaves in the table: it sets the columns in  *)
(* which the object differs from the row as this session loaded it, and no *)
(* others.                                                                 *)
(***************************************************************************)
Written(stored, loaded, object) ==
    LET Column(c) == IF object[c] # loaded[c] THEN object[c] ELSE stored[c]
    IN  [id |-> stored.id,
         status |-> Column("status"),
         fetchStatus |-> Column("fetchStatus"),
         failures |-> Column("failures"),
         error |-> Column("error"),
         fetchAt |-> Column("fetchAt")]
=============================================================================
