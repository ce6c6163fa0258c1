------------------------ MODULE ConnectionPoolProofs ------------------------
(* What ConnectionPool promises, for any number of connections, requests   *)
(* and jobs.  PoolInv is inductive as it stands.                           *)
EXTENDS ConnectionPool, TLAPS

LEMMA InitPoolInv == Init => PoolInv
BY NoneIsNoConnection DEF Init, PoolInv, TypeOK, HeldWhileUsed, Requests, Jobs, Procs

LEMMA NextPoolInv == PoolInv /\ [Next]_vars => PoolInv'
<1> SUFFICES ASSUME PoolInv, [Next]_vars PROVE PoolInv'
    OBVIOUS
<1> USE NoneIsNoConnection DEF PoolInv, TypeOK, HeldWhileUsed, Requests, Jobs
<1>1. ASSUME NEW p \in Procs, Request(p) PROVE PoolInv'
    BY <1>1, AddsAreNoReads DEF Request, Want, Procs
<1>2. ASSUME NEW p \in Procs, Take(p) PROVE PoolInv'
    <2> DEFINE T == stage[p] \in Jobs
    <2>1. PICK c \in Conns : IF T THEN job' = [job EXCEPT ![p] = c] /\ UNCHANGED request
                             ELSE request' = [request EXCEPT ![p] = c] /\ UNCHANGED job
        BY <1>2 DEF Take, Free
    <2>2. waiting[p] /\ waiting' = [waiting EXCEPT ![p] = FALSE] /\ UNCHANGED stage
        BY <1>2 DEF Take
    <2>3. TypeOK'
        BY <2>1, <2>2
    <2>4. ASSUME NEW q \in Procs, q # p PROVE
            /\ request'[q] = request[q] /\ job'[q] = job[q]
            /\ stage'[q] = stage[q] /\ waiting'[q] = waiting[q]
        BY <2>1, <2>2, <2>4
    <2>5. CASE T
        <3>1. job'[p] = c /\ request'[p] = request[p] /\ ~waiting'[p] /\ stage'[p] = stage[p]
            BY <2>1, <2>2, <2>5
        <3> QED BY <2>3, <2>4, <2>5, <3>1
    <2>6. CASE ~T
        <3>1. request'[p] = c /\ job'[p] = job[p] /\ ~waiting'[p] /\ stage'[p] = stage[p]
            BY <2>1, <2>2, <2>6
        <3>2. stage[p] \in Requests
            BY <1>2, <2>6 DEF Take
        <3> QED BY <2>3, <2>4, <2>6, <3>1, <3>2
    <2> QED BY <2>5, <2>6
<1>3. ASSUME NEW p \in Procs, EndRequest(p) PROVE PoolInv'
    BY <1>3 DEF EndRequest, Closed
<1>4. ASSUME NEW p \in Procs, Save(p) PROVE PoolInv'
    BY <1>4 DEF Save, Want
<1>5. ASSUME NEW p \in Procs, Respond(p) PROVE PoolInv'
    BY <1>5 DEF Respond, Want
<1>6. ASSUME NEW p \in Procs, Continue(p) PROVE PoolInv'
    BY <1>6 DEF Continue, NextJobs, Want
<1>7. ASSUME NEW p \in Procs, EndJob(p) PROVE PoolInv'
    BY <1>7 DEF EndJob, Closed
<1>8. ASSUME NEW p \in Procs, TimeOut(p) PROVE PoolInv'
    <2>1. ASSUME stage[p] \in {"classify", "explain", "classify_deep"},
                 NEW s \in NextJobs[stage[p]], Want(p, s), UNCHANGED <<request, job>>
          PROVE  PoolInv'
        <3>1. s \in Jobs
            BY <2>1 DEF NextJobs, Jobs
        <3>2. waiting[p]
            BY <1>8 DEF TimeOut
        <3>3. p \notin Reads
            BY <2>1
        <3> QED BY <2>1, <3>1, <3>2, <3>3 DEF Want
    <2>2. ASSUME Closed(p) PROVE PoolInv'
        BY <2>2 DEF Closed
    <2> QED BY <1>8, <2>1, <2>2 DEF TimeOut
<1>9. CASE UNCHANGED vars
    BY <1>9 DEF vars
<1> QED BY <1>1, <1>2, <1>3, <1>4, <1>5, <1>6, <1>7, <1>8, <1>9 DEF Next, Proceed

LEMMA PoolInvGivesGridlock == PoolInv => GridlockIsByJobs
<1> SUFFICES ASSUME PoolInv, Gridlocked, NEW c \in Conns
             PROVE \E p \in Adds : stage[p] \in Jobs /\ request[p] = c /\ job[p] = None
    BY DEF GridlockIsByJobs
<1>1. PICK p \in Procs : waiting[p] /\ c \in {request[p], job[p]}
    BY DEF Gridlocked
<1>2. job[p] = None
    BY <1>1 DEF PoolInv, HeldWhileUsed
<1>3. request[p] = c
    BY <1>1, <1>2, NoneIsNoConnection
<1>4. stage[p] \in Jobs
    BY <1>1, <1>3, NoneIsNoConnection DEF PoolInv, HeldWhileUsed
<1>5. p \in Adds
    BY <1>4 DEF PoolInv, TypeOK, Jobs, Procs
<1> QED BY <1>2, <1>3, <1>4, <1>5

(* No path through a request and its job leaks a connection. *)
THEOREM PoolInvariance == Spec => []PoolInv
BY InitPoolInv, NextPoolInv, PTL DEF Spec

(* Only as many overlapping first ingests as there are connections can     *)
(* make everybody wait for everybody.                                      *)
THEOREM GridlockTakesJobs == Spec => []GridlockIsByJobs
BY PoolInvariance, PoolInvGivesGridlock, PTL
=============================================================================
