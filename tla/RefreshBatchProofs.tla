------------------------- MODULE RefreshBatchProofs -------------------------
(***************************************************************************)
(* Proofs about RefreshBatch, for any number of channels, overlapping      *)
(* calls and other jobs, any time budget and any limit.                    *)
(***************************************************************************)
EXTENDS RefreshBatch, Integers, FiniteSetTheorems, TLAPS

-----------------------------------------------------------------------------
(***************************************************************************)
(* What remains when some elements are taken out of an order is an order.  *)
(***************************************************************************)
LEMMA WithoutOrders ==
    ASSUME NEW order, Ordered(order), NEW gone
    PROVE  /\ Ordered(Without(order, gone))
           /\ DOMAIN Without(order, gone) = DOMAIN order \ gone
           /\ \A x \in DOMAIN order \ gone : Without(order, gone)[x] = order[x] \ gone
  <1> DEFINE new == Without(order, gone)
  <1>1. /\ DOMAIN new = DOMAIN order \ gone
        /\ \A x \in DOMAIN order \ gone : new[x] = order[x] \ gone
        /\ new = [x \in DOMAIN order \ gone |-> new[x]]
    BY DEF Without
  <1> HIDE DEF new
  <1> QED
    BY <1>1 DEF Ordered, new

(* So is an order with one element more at its end. *)
LEMMA WithLastOrders ==
    ASSUME NEW order, Ordered(order), NEW e, e \notin DOMAIN order
    PROVE  /\ Ordered(WithLast(order, e))
           /\ DOMAIN WithLast(order, e) = DOMAIN order \cup {e}
           /\ \A x \in DOMAIN order : WithLast(order, e)[x] = order[x]
  <1> DEFINE new == WithLast(order, e)
  <1>1. /\ DOMAIN new = DOMAIN order \cup {e}
        /\ \A x \in DOMAIN order : new[x] = order[x]
        /\ new[e] = DOMAIN order
        /\ new = [x \in DOMAIN order \cup {e} |-> new[x]]
    BY DEF WithLast
  <1> HIDE DEF new
  <1> QED
    BY <1>1 DEF Ordered, new

(* And an order in which one element has taken the place of another. *)
LEMMA WithInsteadOrders ==
    ASSUME NEW order, Ordered(order), NEW i \in DOMAIN order, NEW u, u \notin DOMAIN order
    PROVE  /\ Ordered(WithInstead(order, i, u))
           /\ DOMAIN WithInstead(order, i, u) = (DOMAIN order \ {i}) \cup {u}
           /\ \A x \in DOMAIN order \ {i} :
                 WithInstead(order, i, u)[x] \subseteq
                    (order[x] \ {i}) \cup (IF i \in order[x] THEN {u} ELSE {})
  <1> DEFINE new == WithInstead(order, i, u)
             was(x) == IF x = u THEN i ELSE x
  <1>1. /\ DOMAIN new = (DOMAIN order \ {i}) \cup {u}
        /\ new = [x \in DOMAIN new |-> new[x]]
        /\ \A x \in DOMAIN new : new[x] = {IF y = i THEN u ELSE y : y \in order[was(x)]}
    BY DEF WithInstead
  <1> HIDE DEF new
  <1>2. \A x \in DOMAIN order : order[x] \subseteq DOMAIN order
    BY DEF Ordered
  <1>3. ASSUME NEW x \in DOMAIN new, NEW y \in DOMAIN new
        PROVE  y \in new[x] <=> was(y) \in order[was(x)]
    <2>1. was(x) \in DOMAIN order /\ was(y) \in DOMAIN order
      BY <1>1
    <2>2. \A z \in order[was(x)] : (IF z = i THEN u ELSE z) = y <=> z = was(y)
      BY <1>1, <1>2, <2>1
    <2> QED
      BY <1>1, <2>2
  <1>4. ASSUME NEW x \in DOMAIN new PROVE new[x] \subseteq DOMAIN new
    <2>1. was(x) \in DOMAIN order
      BY <1>1
    <2> QED
      BY <1>1, <1>2, <2>1
  <1>5. new \in [DOMAIN new -> SUBSET DOMAIN new]
    BY <1>1, <1>4
  <1>6. \A x \in DOMAIN new : was(x) \in DOMAIN order
    BY <1>1
  <1>7. \A x, y \in DOMAIN new : was(x) = was(y) => x = y
    BY <1>1
  <1>8. ASSUME NEW x \in DOMAIN new
        PROVE  x \notin new[x] /\ \A y \in new[x] : new[y] \subseteq new[x]
    <2>1. x \notin new[x]
      BY <1>3, <1>6 DEF Ordered
    <2>2. ASSUME NEW y \in new[x], NEW z \in new[y] PROVE z \in new[x]
      <3>1. y \in DOMAIN new /\ z \in DOMAIN new
        BY <1>4
      <3>2. was(y) \in order[was(x)] /\ was(z) \in order[was(y)]
        BY <1>3, <3>1
      <3>3. was(z) \in order[was(x)]
        BY <1>6, <3>2 DEF Ordered
      <3> QED
        BY <1>3, <3>1, <3>3
    <2> QED
      BY <2>1, <2>2
  <1>9. ASSUME NEW x \in DOMAIN new, NEW y \in DOMAIN new
        PROVE  x = y \/ x \in new[y] \/ y \in new[x]
    <2>1. was(x) = was(y) \/ was(x) \in order[was(y)] \/ was(y) \in order[was(x)]
      BY <1>6 DEF Ordered
    <2> QED
      BY <1>3, <1>7, <2>1
  <1>10. Ordered(new)
    BY <1>5, <1>8, <1>9 DEF Ordered
  <1> QED
    BY <1>1, <1>10 DEF new

(* The list of a call that has nothing left is an order without elements. *)
LEMMA NothingIsOrdered == Ordered(Nothing) /\ DOMAIN Nothing = {}
  BY DEF Ordered, Nothing
-----------------------------------------------------------------------------
(***************************************************************************)
(* Without Watched nothing has been missed.  What a call has listed, holds *)
(* and is done with does not exceed its batch_limit, and it counts from 0. *)
(***************************************************************************)
There == Watched \in DOMAIN queue

Running(c) == current[c] # Idle \/ DOMAIN due[c] # {}

Busy(c) == IF current[c] = Idle THEN 0 ELSE 1

Handled(c) == Cardinality(DOMAIN due[c]) + processed[c] + Busy(c)

CallAgrees(c) ==
    /\ current[c] \notin DOMAIN due[c]
    /\ Handled(c) <= BatchLimit
    /\ ~Running(c) => processed[c] = 0

Basics ==
    /\ TypeOK
    /\ \A c \in Calls : CallAgrees(c)
    /\ ~There => missed = 0

(* What the assumptions on the constants say, in the form the proofs use. *)
LEMMA Facts ==
    /\ IsFiniteSet(Usernames) /\ IsFiniteSet(Calls) /\ IsFiniteSet(Ingests)
    /\ BatchLimit \in Nat /\ PerCall \in Nat /\ PerCall >= 1 /\ PerCall <= BatchLimit
    /\ Watched \in Usernames /\ Watched \notin Ingests /\ Watched # Idle
    /\ Idle \notin Usernames /\ Usernames \cap Ingests = {}
    /\ Calls \subseteq Ingests /\ Jobs \subseteq Ingests
    /\ \A S \in SUBSET Usernames : IsFiniteSet(S) /\ Cardinality(S) \in Nat
  <1>1. IsFiniteSet(Calls)
    BY SetsAreFinite, FS_Subset DEF Ingests
  <1>2. \A S \in SUBSET Usernames : IsFiniteSet(S) /\ Cardinality(S) \in Nat
    BY SetsAreFinite, FS_Subset, FS_CardinalityType
  <1> QED
    BY <1>1, <1>2, SetsAreFinite, ActorsDiffer, BrokenAreChannels, LimitCoversBudget DEF Ingests

(* What a commit does to the queue. *)
LEMMA CommittedOrders ==
    ASSUME TypeOK, NEW i \in Ingests, current[i] \in Usernames, Committed(i)
    PROVE  /\ DOMAIN queue' \subseteq Usernames \cup Ingests /\ Ordered(queue')
           /\ DOMAIN queue' \ {current[i]} = DOMAIN queue \ {i, current[i]}
           /\ \A x \in DOMAIN queue \ {i, current[i]} :
                 queue'[x] \subseteq (queue[x] \ {i, current[i]})
                                     \cup (IF i \in queue[x] THEN {current[i]} ELSE {})
  <1> DEFINE u == current[i]
             rest == Without(queue, {u})
  <1>1. Ordered(queue) /\ DOMAIN queue \subseteq Usernames \cup Ingests
        /\ u # i /\ i \in DOMAIN queue /\ u \in Usernames
    BY Facts DEF TypeOK
  <1>2. /\ Ordered(rest) /\ DOMAIN rest = DOMAIN queue \ {u}
        /\ \A x \in DOMAIN queue \ {u} : rest[x] = queue[x] \ {u}
    BY <1>1, WithoutOrders
  <1>3. CASE queue' = Without(queue, {i, u})
    <2> DEFINE new == Without(queue, {i, u})
    <2>1. /\ Ordered(new) /\ DOMAIN new = DOMAIN queue \ {i, u}
          /\ \A x \in DOMAIN queue \ {i, u} : new[x] = queue[x] \ {i, u}
      BY <1>1, WithoutOrders
    <2> HIDE DEF new
    <2> QED
      BY <1>1, <1>3, <2>1 DEF new
  <1>4. CASE queue' = WithInstead(rest, i, u)
    <2> HIDE DEF rest, u
    <2>1. Ordered(rest) /\ i \in DOMAIN rest /\ u \notin DOMAIN rest
      BY <1>1, <1>2
    <2> DEFINE new == WithInstead(rest, i, u)
    <2>2. /\ Ordered(new) /\ DOMAIN new = (DOMAIN rest \ {i}) \cup {u}
          /\ \A x \in DOMAIN rest \ {i} :
                new[x] \subseteq (rest[x] \ {i}) \cup (IF i \in rest[x] THEN {u} ELSE {})
      BY <2>1, WithInsteadOrders
    <2> HIDE DEF new
    <2> QED
      BY <1>1, <1>2, <1>4, <2>2 DEF u, new
  <1> QED
    BY <1>3, <1>4 DEF Committed
-----------------------------------------------------------------------------
(* Nothing is listed and no ingest is under way in the first state. *)
LEMMA BasicsStart == Init => Basics
  <1> SUFFICES ASSUME Init PROVE Basics
    OBVIOUS
  <1>1. TypeOK
    BY NothingIsOrdered, Facts DEF Init, TypeOK
  <1>2. ASSUME NEW c \in Calls PROVE CallAgrees(c)
    <2>1. current[c] = Idle /\ DOMAIN due[c] = {} /\ processed[c] = 0
      BY NothingIsOrdered, Facts DEF Init
    <2> QED
      BY <2>1, Facts, FS_EmptySet DEF CallAgrees, Handled, Busy
  <1> QED
    BY <1>1, <1>2 DEF Basics, Init

(***************************************************************************)
(* A channel that is withdrawn leaves an order behind; if it is Watched,   *)
(* it has missed nothing.                                                  *)
(***************************************************************************)
LEMMA WithdrawnKeepsBasics ==
    ASSUME Basics, NEW u \in Usernames, Withdrawn(u) PROVE Basics'
  <1>1. Ordered(queue') /\ DOMAIN queue' = DOMAIN queue \ {u}
    BY WithoutOrders DEF Basics, TypeOK, Withdrawn
  <1>2. u \notin Ingests
    BY Facts
  <1>3. TypeOK'
    BY <1>1, <1>2 DEF Basics, TypeOK, Withdrawn
  <1>4. \A c \in Calls : CallAgrees(c)'
    BY DEF Basics, Withdrawn, CallAgrees, Handled, Busy, Running
  <1>5. There' \/ missed' = 0
    BY <1>1 DEF Basics, Withdrawn, There
  <1> QED
    BY <1>3, <1>4, <1>5 DEF Basics

(***************************************************************************)
(* An ingest that begins comes last in the queue, and is in it because it  *)
(* is no longer idle.                                                      *)
(***************************************************************************)
LEMMA BegunOrders ==
    ASSUME TypeOK, NEW i \in Ingests, NEW u \in Usernames, Begun(i, u)
    PROVE  /\ Ordered(queue') /\ DOMAIN queue' = DOMAIN queue \cup {i} /\ i \notin DOMAIN queue
           /\ \A x \in DOMAIN queue : queue'[x] = queue[x]
           /\ current' \in [Ingests -> Usernames \cup {Idle}]
           /\ \A j \in Ingests : j \in DOMAIN queue' <=> current'[j] # Idle
           /\ DOMAIN queue' \subseteq Usernames \cup Ingests
  <1>1. i \notin DOMAIN queue /\ Ordered(queue)
    BY DEF TypeOK, Begun
  <1>2. queue' = WithLast(queue, i) /\ current' = [current EXCEPT ![i] = u]
    BY DEF Begun
  <1>3. /\ Ordered(queue') /\ DOMAIN queue' = DOMAIN queue \cup {i}
        /\ \A x \in DOMAIN queue : queue'[x] = queue[x]
    BY <1>1, <1>2, WithLastOrders
  <1> QED
    BY <1>1, <1>2, <1>3, Facts DEF TypeOK

(* No call is touched when a job begins an ingest. *)
LEMMA JobBeginsKeepsBasics ==
    ASSUME Basics, NEW j \in Jobs, NEW u \in Usernames, JobBegins(j, u) PROVE Basics'
  <1>1. j \in Ingests /\ Begun(j, u) /\ TypeOK
    BY Facts DEF JobBegins, Basics
  <1>2. TypeOK' /\ (There => There')
    BY <1>1, BegunOrders DEF JobBegins, TypeOK, There
  <1>3. \A c \in Calls : current'[c] = current[c]
    BY <1>1, ActorsDiffer DEF Begun
  <1>4. \A c \in Calls : CallAgrees(c)'
    BY <1>3 DEF Basics, JobBegins, CallAgrees, Handled, Busy, Running
  <1> QED
    BY <1>2, <1>4 DEF Basics, JobBegins

(* An ingest that has ended left the queue. *)
LEMMA LeavesTheQueue ==
    ASSUME TypeOK, NEW i \in Ingests, current[i] # Idle, Committed(i) \/ RolledBack(i),
           current' = [current EXCEPT ![i] = Idle]
    PROVE  /\ DOMAIN queue' \subseteq Usernames \cup Ingests /\ Ordered(queue')
           /\ current' \in [Ingests -> Usernames \cup {Idle}]
           /\ \A j \in Ingests : j \in DOMAIN queue' <=> current'[j] # Idle
           /\ DOMAIN queue' \ {current[i]} = DOMAIN queue \ {i, current[i]}
           /\ \A x \in DOMAIN queue \ {i, current[i]} :
                 queue'[x] \subseteq (queue[x] \ {i})
                        \cup (IF Committed(i) /\ i \in queue[x] THEN {current[i]} ELSE {})
           /\ Committed(i) => \A x \in DOMAIN queue \ {i, current[i]} :
                 i \notin queue[x] => current[i] \notin queue'[x]
  <1>1. CASE Committed(i)
    BY <1>1, CommittedOrders, Facts DEF TypeOK
  <1>2. CASE RolledBack(i) /\ ~Committed(i)
    <2> DEFINE new == Without(queue, {i})
    <2>1. Ordered(queue)
      BY DEF TypeOK
    <2>2. /\ Ordered(new) /\ DOMAIN new = DOMAIN queue \ {i}
          /\ \A x \in DOMAIN queue \ {i} : new[x] = queue[x] \ {i}
      BY <2>1, WithoutOrders
    <2>3. queue' = new
      BY <1>2 DEF RolledBack
    <2> HIDE DEF new
    <2> QED
      BY <1>2, <2>2, <2>3 DEF TypeOK
  <1> QED
    BY <1>1, <1>2

(***************************************************************************)
(* Nor when it ends one; a commit that leaves Watched out of the queue     *)
(* resets the count.                                                       *)
(***************************************************************************)
LEMMA JobEndsKeepsBasics ==
    ASSUME Basics, NEW j \in Jobs, JobEnds(j) PROVE Basics'
  <1>1. j \in Ingests /\ TypeOK /\ current[j] # Idle
    BY Facts DEF JobEnds, Basics
  <1>2. /\ DOMAIN queue' \subseteq Usernames \cup Ingests /\ Ordered(queue')
        /\ current' \in [Ingests -> Usernames \cup {Idle}]
        /\ \A i \in Ingests : i \in DOMAIN queue' <=> current'[i] # Idle
    BY <1>1, LeavesTheQueue DEF JobEnds
  <1>3. TypeOK'
    BY <1>2 DEF TypeOK, JobEnds, Basics
  <1>4. \A c \in Calls : current'[c] = current[c]
    BY ActorsDiffer DEF JobEnds
  <1>5. \A c \in Calls : CallAgrees(c)'
    BY <1>4 DEF Basics, JobEnds, CallAgrees, Handled, Busy, Running
  <1>6. There' \/ missed' = 0
    <2>1. CASE RolledBack(j) /\ UNCHANGED missed
      <3>1. DOMAIN queue' = DOMAIN queue \ {j}
        BY <1>1, <2>1, WithoutOrders DEF RolledBack, TypeOK
      <3> QED
        BY <2>1, <3>1, Facts DEF Basics, There
    <2> QED
      BY <2>1 DEF JobEnds, There
  <1> QED
    BY <1>3, <1>5, <1>6 DEF Basics

(* The list that is read is an order, and within the limit. *)
LEMMA ListOrders ==
    ASSUME TypeOK, NEW first \in SUBSET Refreshable
    PROVE  LET new == Without(Due, Refreshable \ first) IN
           /\ Ordered(new) /\ DOMAIN new = first /\ first \subseteq Usernames
           /\ \A u \in Refreshable : Due[u] = queue[u] \ Ingests
           /\ \A u \in first : new[u] = Due[u] \cap first
           /\ Ordered(Due) /\ DOMAIN Due = Refreshable
  <1>1. /\ Ordered(Due) /\ DOMAIN Due = Refreshable
        /\ \A u \in Refreshable : Due[u] = queue[u] \ Ingests
    <2>1. Ordered(queue)
      BY DEF TypeOK
    <2> QED
      BY <2>1, WithoutOrders DEF Due, Refreshable
  <1>2. \A u \in Refreshable : Due[u] \subseteq Refreshable
    BY <1>1 DEF Ordered
  <1>3. Refreshable \subseteq Usernames
    BY DEF Refreshable, TypeOK
  <1>4. Refreshable \ (Refreshable \ first) = first
    OBVIOUS
  <1> DEFINE new == Without(Due, Refreshable \ first)
  <1>5. /\ Ordered(new) /\ DOMAIN new = DOMAIN Due \ (Refreshable \ first)
        /\ \A u \in DOMAIN Due \ (Refreshable \ first) : new[u] = Due[u] \ (Refreshable \ first)
    BY <1>1, WithoutOrders, Zenon
  <1> HIDE DEF new
  <1>6. \A u \in first : new[u] = Due[u] \cap first
    BY <1>1, <1>2, <1>4, <1>5
  <1> QED
    BY <1>1, <1>3, <1>4, <1>5, <1>6 DEF new

(* The limit of the query is what bounds a pass, and a pass starts at 0. *)
LEMMA ListKeepsBasics ==
    ASSUME Basics, NEW c \in Calls, List(c) PROVE Basics'
  <1>1. PICK first \in SUBSET Refreshable :
          /\ Cardinality(first) = BatchLimit \/ Cardinality(first) < BatchLimit
          /\ due' = [due EXCEPT ![c] = Without(Due, Refreshable \ first)]
    BY DEF List
  <1>2. Ordered(due'[c]) /\ DOMAIN due'[c] = first /\ first \subseteq Usernames
    BY <1>1, ListOrders DEF Basics, TypeOK
  <1>3. TypeOK'
    BY <1>2 DEF List, Basics, TypeOK
  <1>4. \A d \in Calls \ {c} : CallAgrees(d)'
    BY DEF List, Basics, CallAgrees, Handled, Busy, Running
  <1>5. /\ Cardinality(first) \in Nat /\ Cardinality(first) <= BatchLimit
    BY <1>1, <1>2, Facts
  <1>6. current[c] = Idle /\ processed[c] = 0
    BY DEF List, Basics, CallAgrees, Running
  <1>7. CallAgrees(c)'
    BY <1>2, <1>5, <1>6, Facts DEF List, CallAgrees, Handled, Busy
  <1> QED
    BY <1>3, <1>4, <1>7 DEF Basics, List, There

(* The channel that is begun moves from the list to the hand of the call. *)
LEMMA BeginKeepsBasics ==
    ASSUME Basics, NEW c \in Calls, Begin(c) PROVE Basics'
  <1>1. PICK u \in DOMAIN due[c] :
          due[c][u] = {} /\ Begun(c, u) /\ due' = [due EXCEPT ![c] = Without(@, {u})]
    BY DEF Begin
  <1>2. TypeOK /\ c \in Ingests /\ u \in Usernames /\ u # Idle
    BY Facts DEF Basics, TypeOK
  <1>3. /\ Ordered(due'[c]) /\ DOMAIN due'[c] = DOMAIN due[c] \ {u}
        /\ DOMAIN due' = Calls /\ \A d \in Calls \ {c} : due'[d] = due[d]
    BY <1>1, <1>2, WithoutOrders DEF TypeOK
  <1>4. TypeOK' /\ (There => There')
    <2>1. /\ Ordered(queue') /\ DOMAIN queue' = DOMAIN queue \cup {c}
          /\ current' \in [Ingests -> Usernames \cup {Idle}]
          /\ \A j \in Ingests : j \in DOMAIN queue' <=> current'[j] # Idle
          /\ DOMAIN queue' \subseteq Usernames \cup Ingests
      BY <1>1, <1>2, BegunOrders
    <2>2. \A d \in Calls : DOMAIN due'[d] \subseteq Usernames /\ Ordered(due'[d])
      BY <1>2, <1>3 DEF TypeOK
    <2>3. TypeOK'
      BY <1>2, <1>3, <2>1, <2>2 DEF Begin, TypeOK
    <2> QED
      BY <2>1, <2>3 DEF There
  <1>5. current[c] = Idle /\ current'[c] = u /\ \A d \in Calls \ {c} : current'[d] = current[d]
    BY <1>1, <1>2 DEF Begun, TypeOK
  <1>6. \A d \in Calls \ {c} : CallAgrees(d)'
    BY <1>5 DEF Begin, Basics, CallAgrees, Handled, Busy, Running
  <1>7. Cardinality(DOMAIN due[c]) \in Nat
        /\ Cardinality(DOMAIN due'[c]) = Cardinality(DOMAIN due[c]) - 1
    BY <1>2, <1>3, Facts, FS_RemoveElement DEF TypeOK
  <1>8. CallAgrees(c)'
    <2>1. processed'[c] = processed[c] /\ processed[c] \in Nat /\ Handled(c) <= BatchLimit
      BY DEF Begin, Basics, CallAgrees, TypeOK
    <2>2. Busy(c) = 0 /\ Busy(c)' = 1
      BY <1>2, <1>5 DEF Busy
    <2>3. Handled(c)' <= BatchLimit
      BY <1>7, <2>1, <2>2 DEF Handled
    <2> QED
      BY <1>2, <1>3, <1>5, <2>3 DEF CallAgrees, Running
  <1> QED
    BY <1>4, <1>6, <1>8 DEF Basics, Begin

(* A call that is done with its channel. *)
LEMMA EndedKeeps ==
    ASSUME Basics, NEW c \in Calls, current[c] # Idle, NEW fetched, Ended(c, fetched)
    PROVE  /\ DOMAIN due' = Calls
           /\ \A d \in Calls : DOMAIN due'[d] \subseteq Usernames /\ Ordered(due'[d])
           /\ processed' \in [Calls -> 0 .. BatchLimit]
           /\ missed' \in Nat
           /\ There' \/ missed' = 0
           /\ \A d \in Calls : CallAgrees(d)'
           /\ \A d \in Calls \ {c} : due'[d] = due[d] /\ processed'[d] = processed[d]
           /\ \A d \in Calls \ {c} : current'[d] = current[d]
           /\ current'[c] = Idle
           /\ due'[c] = due[c] \/ (processed[c] + 1 >= PerCall /\ DOMAIN due'[c] = {})
           /\ processed'[c] = IF DOMAIN due'[c] = {} THEN 0 ELSE processed[c] + 1
  <1>1. TypeOK /\ c \in Ingests /\ CallAgrees(c)
    BY Facts DEF Basics
  <1>2. /\ DOMAIN due' = Calls
        /\ \A d \in Calls \ {c} : due'[d] = due[d]
        /\ due'[c] = due[c] \/ (processed[c] + 1 >= PerCall /\ due'[c] = Nothing)
    <2>1. CASE due' = due
      BY <1>1, <2>1 DEF TypeOK
    <2>2. CASE processed[c] + 1 >= PerCall /\ due' = [due EXCEPT ![c] = Nothing]
      BY <1>1, <2>2 DEF TypeOK
    <2> QED
      BY <2>1, <2>2 DEF Ended
  <1>3. \A d \in Calls : DOMAIN due'[d] \subseteq Usernames /\ Ordered(due'[d])
    BY <1>1, <1>2, NothingIsOrdered DEF TypeOK
  <1>4. /\ current'[c] = Idle
        /\ \A d \in Calls \ {c} : current'[d] = current[d] /\ processed'[d] = processed[d]
        /\ processed'[c] = IF DOMAIN due'[c] = {} THEN 0 ELSE processed[c] + 1
        /\ processed' \in [Calls -> Int]
    BY <1>1 DEF Ended, TypeOK
  <1>5. Cardinality(DOMAIN due[c]) \in Nat /\ processed[c] \in Nat
        /\ processed[c] + 1 <= BatchLimit
        /\ Cardinality(DOMAIN due[c]) + processed[c] + 1 <= BatchLimit
    BY <1>1, Facts DEF CallAgrees, Handled, Busy, TypeOK
  <1>6. processed' \in [Calls -> 0 .. BatchLimit]
    BY <1>1, <1>4, <1>5, Facts DEF TypeOK
  <1>7. \A d \in Calls \ {c} : CallAgrees(d)'
    BY <1>2, <1>4 DEF Basics, CallAgrees, Handled, Busy, Running
  <1>8. CallAgrees(c)'
    <2>1. CASE DOMAIN due'[c] = {}
      BY <1>4, <2>1, Facts, FS_EmptySet DEF CallAgrees, Handled, Busy
    <2>2. CASE DOMAIN due'[c] # {}
      <3>1. due'[c] = due[c] /\ processed'[c] = processed[c] + 1
        BY <1>2, <1>4, <2>2, NothingIsOrdered
      <3>2. Idle \notin DOMAIN due[c]
        BY <1>1, Facts DEF TypeOK
      <3> QED
        BY <1>4, <1>5, <3>1, <3>2 DEF CallAgrees, Handled, Busy, Running
    <2> QED
      BY <2>1, <2>2
  <1>9. missed' \in Nat
    BY <1>1 DEF Ended, TypeOK
  <1>10. There' \/ missed' = 0
    BY DEF Ended, There
  <1> QED
    BY <1>2, <1>3, <1>4, <1>6, <1>7, <1>8, <1>9, <1>10, NothingIsOrdered

(***************************************************************************)
(* A commit and a rollback differ in the queue, not in what they do to the *)
(* call.                                                                   *)
(***************************************************************************)
LEMMA CommitKeepsBasics ==
    ASSUME Basics, NEW c \in Calls, Commit(c) \/ Raise(c) PROVE Basics'
  <1>1. PICK fetched : Ended(c, fetched) /\ (Committed(c) \/ RolledBack(c))
    BY DEF Commit, Raise
  <1>2. TypeOK /\ c \in Ingests /\ current[c] # Idle
    BY Facts, BrokenAreChannels DEF Basics, Commit, Raise
  <1>3. current' = [current EXCEPT ![c] = Idle]
    BY <1>1 DEF Ended
  <1>4. TypeOK'
    BY <1>1, <1>2, <1>3, EndedKeeps, LeavesTheQueue DEF TypeOK
  <1> QED
    BY <1>1, <1>2, <1>4, EndedKeeps DEF Basics

(* No step breaks Basics. *)
LEMMA BasicsStep == Basics /\ [Next]_vars => Basics'
  <1> SUFFICES ASSUME Basics, [Next]_vars PROVE Basics'
    OBVIOUS
  <1>1. CASE UNCHANGED vars
    BY <1>1 DEF vars, Basics, TypeOK, There, CallAgrees, Handled, Busy, Running
  <1>2. ASSUME NEW u \in Usernames, Withdrawn(u) PROVE Basics'
    BY <1>2, WithdrawnKeepsBasics
  <1>3. ASSUME NEW u \in Usernames, NEW j \in Jobs, JobBegins(j, u) PROVE Basics'
    BY <1>3, JobBeginsKeepsBasics
  <1>4. ASSUME NEW j \in Jobs, JobEnds(j) PROVE Basics'
    BY <1>4, JobEndsKeepsBasics
  <1>5. ASSUME NEW c \in Calls, Call(c) PROVE Basics'
    BY <1>5, ListKeepsBasics, BeginKeepsBasics, CommitKeepsBasics DEF Call
  <1> QED
    BY <1>1, <1>2, <1>3, <1>4, <1>5 DEF Next

(***************************************************************************)
(* Queue and lists are orders in every reachable state, an ingest is       *)
(* queued while it is under way, and no call gets through more than its    *)
(* batch_limit.                                                            *)
(***************************************************************************)
THEOREM RefreshTypes == Spec => []TypeOK
  <1>1. Basics => TypeOK
    BY DEF Basics
  <1> QED
    BY <1>1, BasicsStart, BasicsStep, PTL DEF Spec
-----------------------------------------------------------------------------
(***************************************************************************)
(* Why nobody starves.  Take a call whose present pass began after Watched *)
(* was last fetched, in its k-th pass since. Ahead is what comes before    *)
(* Watched in the queue, Early the ingests among it: they have read their  *)
(* time before Watched was fetched, so that what they commit comes before  *)
(* Watched. Left are the healthy channels that are ahead or that the call  *)
(* has yet to get through before it comes to Watched, Raised the broken    *)
(* ones it has got through. A channel that the call gets through leaves    *)
(* Left or joins Raised, and one that is fetched comes after Watched: a    *)
(* full pass takes at least PerTurn off Left.  Balance says so, with x     *)
(* channels that others have put ahead in the meantime.                    *)
(***************************************************************************)
Healthy == Usernames \ Broken

Others == Healthy \ {Watched}

PerTurn == PerCall - Cardinality(Broken)

Sane == Watched \notin Broken /\ Cardinality(Broken) < PerCall

Ahead == IF There THEN queue[Watched] ELSE {}

Early == Ahead \cap Ingests

ToCome(c) ==
    IF current[c] = Watched THEN {}
    ELSE ({current[c]} \ {Idle})
         \cup (IF Watched \in DOMAIN due[c] THEN due[c][Watched] ELSE DOMAIN due[c])

Left(c) == (Ahead \cup ToCome(c)) \cap Healthy

Raised(c) == IF Running(c) THEN Broken \ ToCome(c) ELSE {}

Reaches(c) ==
    Running(c) /\ current[c] # Watched /\ Watched \notin DOMAIN due[c] => Handled(c) >= PerCall

Balance(c, k, x) ==
    PerTurn * k + Cardinality(Left(c)) + processed[c]
        <= PerTurn + Cardinality(Others) + x + Cardinality(Raised(c))

Fair(c, k, x) == Reaches(c) /\ Balance(c, k, x)

(***************************************************************************)
(* Sizes of the sets above, and what Sane, the hypothesis of               *)
(* NobodyStarves, says about them.                                         *)
(***************************************************************************)
LEMMA Sizes ==
    /\ \A S : S \cap Healthy \subseteq Usernames
    /\ Broken \subseteq Usernames /\ Others \subseteq Usernames /\ Healthy \cap Broken = {}
    /\ Cardinality(Broken) \in Nat /\ Cardinality(Others) \in Nat
    /\ PerTurn \in Int /\ PerTurn = PerCall - Cardinality(Broken)
    /\ Sane => PerTurn >= 1
    /\ \A k \in Nat : PerTurn * k \in Int /\ PerTurn * (k + 1) = PerTurn * k + PerTurn
    /\ Sane => Watched \in Healthy
  <1>1. Broken \subseteq Usernames /\ Others \subseteq Usernames
    BY BrokenAreChannels DEF Others, Healthy
  <1>2. Cardinality(Broken) \in Nat /\ Cardinality(Others) \in Nat
    BY <1>1, Facts
  <1>3. PerTurn \in Int /\ PerTurn = PerCall - Cardinality(Broken) /\ (Sane => PerTurn >= 1)
    BY <1>2, Facts DEF PerTurn, Sane
  <1> QED
    BY <1>1, <1>3, Facts DEF Healthy, Sane

(***************************************************************************)
(* A subset of some channels has at most as many, and fewer if one is not  *)
(* in it.                                                                  *)
(***************************************************************************)
LEMMA LargerHasMore ==
    ASSUME NEW S \in SUBSET Usernames, NEW T \in SUBSET S
    PROVE  /\ Cardinality(S) \in Nat /\ Cardinality(T) \in Nat
           /\ Cardinality(T) <= Cardinality(S)
           /\ \A h \in S : h \notin T => Cardinality(T) + 1 <= Cardinality(S)
  <1>1. IsFiniteSet(S) /\ Cardinality(S) \in Nat
    BY Facts
  <1>2. IsFiniteSet(T) /\ Cardinality(T) \in Nat /\ Cardinality(T) <= Cardinality(S)
    BY <1>1, FS_Subset, FS_CardinalityType
  <1>3. Cardinality(S) = Cardinality(T) => S = T
    BY <1>1, FS_Subset
  <1> QED
    BY <1>1, <1>2, <1>3

(* One element more raises the size by one at most. *)
LEMMA OneMoreAtMost ==
    ASSUME NEW S \in SUBSET Usernames, NEW h, NEW T \in SUBSET Usernames, T \subseteq S \cup {h}
    PROVE  /\ Cardinality(S) \in Nat /\ Cardinality(T) \in Nat
           /\ Cardinality(T) <= Cardinality(S) + 1
  <1>1. IsFiniteSet(S) /\ Cardinality(S) \in Nat /\ Cardinality(T) \in Nat
    BY Facts
  <1>2. /\ IsFiniteSet(S \cup {h})
        /\ Cardinality(S \cup {h}) = IF h \in S THEN Cardinality(S) ELSE Cardinality(S) + 1
    BY <1>1, FS_AddElement
  <1>3. Cardinality(T) <= Cardinality(S \cup {h})
    BY <1>2, FS_Subset
  <1> QED
    BY <1>1, <1>2, <1>3

(***************************************************************************)
(* What a call has to do with is a set of channels, and Watched does not   *)
(* come before itself.                                                     *)
(***************************************************************************)
LEMMA SetsOfCalls ==
    ASSUME Basics, NEW c \in Calls
    PROVE  /\ Left(c) \subseteq Usernames /\ Cardinality(Left(c)) \in Nat
           /\ Raised(c) \subseteq Usernames /\ Cardinality(Raised(c)) \in Nat
           /\ Raised(c) \subseteq Broken
           /\ processed[c] \in Nat
           /\ Cardinality(DOMAIN due[c]) \in Nat
           /\ Watched \notin Ahead
           /\ current[c] \notin DOMAIN due[c]
           /\ Watched \notin ToCome(c)
           /\ DOMAIN due[c] \subseteq Usernames
           /\ ~Running(c) => ToCome(c) = {}
           /\ Watched \in DOMAIN due[c] => due[c][Watched] \subseteq DOMAIN due[c]
  <1>1. Left(c) \subseteq Usernames
    BY DEF Left, Healthy
  <1>2. Raised(c) \subseteq Usernames /\ Raised(c) \subseteq Broken
    BY Sizes DEF Raised
  <1>3. Watched \notin Ahead
    BY DEF Basics, TypeOK, Ordered, Ahead, There
  <1>4. DOMAIN due[c] \subseteq Usernames /\ Ordered(due[c])
    BY DEF Basics, TypeOK
  <1>5. Watched \in DOMAIN due[c] =>
           due[c][Watched] \subseteq DOMAIN due[c] /\ Watched \notin due[c][Watched]
    BY <1>4 DEF Ordered
  <1>6. Watched \notin ToCome(c)
    BY <1>5 DEF ToCome
  <1>7. ~Running(c) => ToCome(c) = {}
    BY DEF ToCome, Running
  <1> QED
    BY <1>1, <1>2, <1>3, <1>5, <1>6, <1>7, Facts DEF Basics, TypeOK, CallAgrees

(* The same after a step. *)
LEMMA SetsOfCallsNext ==
    ASSUME Basics', NEW c \in Calls
    PROVE  /\ Left(c)' \subseteq Usernames /\ Cardinality(Left(c)') \in Nat
           /\ Raised(c)' \subseteq Usernames /\ Cardinality(Raised(c)') \in Nat
           /\ Watched \notin Ahead'
  <1>1. Left(c)' \subseteq Usernames
    BY DEF Left, Healthy
  <1>2. Raised(c)' \subseteq Usernames
    BY Sizes DEF Raised
  <1>3. Watched \notin Ahead'
    BY DEF Basics, TypeOK, Ordered, Ahead, There
  <1> QED
    BY <1>1, <1>2, <1>3, Facts
-----------------------------------------------------------------------------
(* A step of someone else's. *)
LEMMA BystanderKeeps ==
    ASSUME Basics, Basics', Sane, NEW c \in Calls,
           due'[c] = due[c], current'[c] = current[c], processed'[c] = processed[c],
           NEW k \in Nat, NEW x \in Nat, NEW y \in Nat, NEW h, Fair(c, k, x),
           \/ Ahead' \cap Healthy \subseteq Ahead /\ y >= x
           \/ Ahead' \cap Healthy \subseteq Ahead \cup {h} /\ y = x + 1
    PROVE  Fair(c, k, y)'
  <1>1. ToCome(c)' = ToCome(c) /\ (Running(c)' <=> Running(c)) /\ Raised(c)' = Raised(c)
        /\ Handled(c)' = Handled(c)
    BY DEF ToCome, Running, Raised, Handled, Busy
  <1>2. Reaches(c)'
    BY <1>1 DEF Fair, Reaches
  <1>3. /\ Left(c) \subseteq Usernames /\ Left(c)' \subseteq Usernames
        /\ Cardinality(Left(c)) \in Nat /\ Cardinality(Left(c)') \in Nat
        /\ Cardinality(Raised(c)) \in Nat /\ processed[c] \in Nat
    BY SetsOfCalls, SetsOfCallsNext
  <1> DEFINE m == PerTurn * k
  <1>4. m \in Int /\ PerTurn \in Int /\ Cardinality(Others) \in Nat
    BY Sizes
  <1>5. m + Cardinality(Left(c)) + processed[c]
           <= PerTurn + Cardinality(Others) + x + Cardinality(Raised(c))
    BY DEF Fair, Balance
  <1>6. m + Cardinality(Left(c)') + processed[c]
           <= PerTurn + Cardinality(Others) + y + Cardinality(Raised(c))
        => Fair(c, k, y)'
    BY <1>1, <1>2 DEF Fair, Balance
  <1> HIDE DEF m
  <1>7. CASE Ahead' \cap Healthy \subseteq Ahead /\ y >= x
    <2>1. Left(c)' \subseteq Left(c)
      BY DEF Left
    <2>2. Cardinality(Left(c)') <= Cardinality(Left(c))
      BY <1>3, <2>1, LargerHasMore
    <2> QED
      BY <1>3, <1>7, <1>4, <1>5, <1>6, <2>2
  <1>8. CASE Ahead' \cap Healthy \subseteq Ahead \cup {h} /\ y = x + 1
    <2>1. Left(c)' \subseteq Left(c) \cup {h}
      BY <1>1 DEF Left
    <2>2. Cardinality(Left(c)') <= Cardinality(Left(c)) + 1
      BY <1>3, <2>1, OneMoreAtMost
    <2> QED
      BY <1>3, <1>8, <1>4, <1>5, <1>6, <2>2
  <1> QED
    BY <1>7, <1>8

(* The call goes on to the next channel of its list. *)
LEMMA GoesOnKeeps ==
    ASSUME Basics, Basics', Sane, NEW c \in Calls, current[c] # Idle, current[c] # Watched,
           current'[c] = Idle, due'[c] = due[c], DOMAIN due[c] # {},
           processed'[c] = processed[c] + 1,
           Ahead' \cap Healthy \subseteq Ahead \ {current[c]},
           NEW k \in Nat, NEW x \in Nat, Fair(c, k, x)
    PROVE  Fair(c, k, x)'
  <1> DEFINE h == current[c]
  <1>1. Running(c) /\ Running(c)' /\ Busy(c) = 1 /\ Busy(c)' = 0 /\ Watched # Idle
    BY Facts DEF Running, Busy
  <1>2. h \notin DOMAIN due[c] /\ h \in Usernames
    BY DEF Basics, CallAgrees, TypeOK, Ingests
  <1>3. ToCome(c) = ToCome(c)' \cup {h} /\ h \notin ToCome(c)'
    BY <1>1, SetsOfCalls DEF ToCome
  <1>4. /\ Left(c) \subseteq Usernames /\ Left(c)' \subseteq Usernames
        /\ Raised(c) \subseteq Usernames /\ Raised(c)' \subseteq Usernames
        /\ Cardinality(Left(c)) \in Nat /\ Cardinality(Left(c)') \in Nat
        /\ Cardinality(Raised(c)) \in Nat /\ Cardinality(Raised(c)') \in Nat
        /\ processed[c] \in Nat /\ Cardinality(DOMAIN due[c]) \in Nat
    BY SetsOfCalls, SetsOfCallsNext
  <1>5. Left(c)' \subseteq Left(c) /\ Raised(c) \subseteq Raised(c)'
    BY <1>1, <1>3 DEF Left, Raised
  <1>6. Cardinality(Left(c)') <= Cardinality(Left(c))
        /\ Cardinality(Raised(c)) <= Cardinality(Raised(c)')
    BY <1>4, <1>5, LargerHasMore
  <1> DEFINE m == PerTurn * k
  <1>7. m \in Int /\ PerTurn \in Int /\ Cardinality(Others) \in Nat
    BY Sizes
  <1>8. m + Cardinality(Left(c)) + processed[c]
           <= PerTurn + Cardinality(Others) + x + Cardinality(Raised(c))
    BY DEF Fair, Balance
  <1>9. m + Cardinality(Left(c)') + processed[c] + 1
           <= PerTurn + Cardinality(Others) + x + Cardinality(Raised(c)')
        => Balance(c, k, x)'
    BY <1>4, <1>7 DEF Balance
  <1> HIDE DEF m
  <1>10. ASSUME h \in Broken PROVE Balance(c, k, x)'
    <2>1. h \in Raised(c)' /\ h \notin Raised(c)
      BY <1>1, <1>3, <1>10 DEF Raised
    <2>2. Cardinality(Raised(c)) + 1 <= Cardinality(Raised(c)')
      BY <1>4, <1>5, <2>1, LargerHasMore
    <2> QED
      BY <1>4, <1>6, <1>7, <1>8, <1>9, <2>2
  <1>11. ASSUME h \notin Broken PROVE Balance(c, k, x)'
    <2>1. h \in Left(c) /\ h \notin Left(c)'
      BY <1>2, <1>3, <1>11 DEF Left, Healthy
    <2>2. Cardinality(Left(c)') + 1 <= Cardinality(Left(c))
      BY <1>4, <1>5, <2>1, LargerHasMore
    <2> QED
      BY <1>4, <1>6, <1>7, <1>8, <1>9, <2>2
  <1>12. Balance(c, k, x)'
    BY <1>10, <1>11
  <1>13. Reaches(c)'
    BY <1>1, <1>4 DEF Fair, Reaches, Handled
  <1> QED
    BY <1>12, <1>13 DEF Fair

(* The call ends, and has left Watched out. *)
LEMMA EndKeeps ==
    ASSUME Basics, Basics', Sane, NEW c \in Calls, current[c] # Idle, current[c] # Watched,
           current'[c] = Idle, DOMAIN due'[c] = {}, processed'[c] = 0,
           due'[c] = due[c] \/ processed[c] + 1 >= PerCall,
           Ahead' \cap Healthy \subseteq Ahead \ {current[c]},
           NEW k \in Nat, NEW x \in Nat, Fair(c, k, x)
    PROVE  Fair(c, k + 1, x)'
  <1> DEFINE h == current[c]
  <1>1. Running(c) /\ ~Running(c)' /\ Busy(c) = 1 /\ Watched # Idle
    BY Facts DEF Running, Busy
  <1>2. h \notin DOMAIN due[c] /\ h \in Usernames /\ h \in ToCome(c)
    BY DEF Basics, CallAgrees, TypeOK, Ingests, ToCome
  <1>3. ToCome(c)' = {} /\ Raised(c)' = {}
    BY <1>1 DEF Raised, ToCome
  <1>4. /\ Left(c) \subseteq Usernames /\ Left(c)' \subseteq Usernames
        /\ Raised(c) \subseteq Broken /\ Broken \subseteq Usernames
        /\ Cardinality(Left(c)) \in Nat /\ Cardinality(Left(c)') \in Nat
        /\ Cardinality(Raised(c)) \in Nat /\ Cardinality(Broken) \in Nat
        /\ processed[c] \in Nat /\ Cardinality(Raised(c)') = 0
    BY <1>3, SetsOfCalls, SetsOfCallsNext, Sizes, FS_EmptySet
  <1>5. Left(c)' \subseteq Left(c)
    BY DEF Left
  <1>6. Cardinality(Left(c)') <= Cardinality(Left(c))
        /\ Cardinality(Raised(c)) <= Cardinality(Broken)
    BY <1>4, <1>5, LargerHasMore
  <1>7. processed[c] + 1 >= PerCall
    <2>1. CASE due'[c] = due[c]
      <3>1. Cardinality(DOMAIN due[c]) = 0 /\ Watched \notin DOMAIN due[c]
        BY <2>1, FS_EmptySet
      <3> QED
        BY <1>1, <1>4, <3>1 DEF Fair, Reaches, Handled
    <2> QED
      BY <2>1
  <1>8. PerTurn \in Int /\ PerTurn = PerCall - Cardinality(Broken) /\ PerCall \in Nat
        /\ PerTurn * k \in Int /\ PerTurn * (k + 1) = PerTurn * k + PerTurn
        /\ Cardinality(Others) \in Nat
    BY Sizes, Facts
  <1> DEFINE m == PerTurn * k
  <1>9. m + Cardinality(Left(c)) + processed[c]
           <= PerTurn + Cardinality(Others) + x + Cardinality(Raised(c))
    BY DEF Fair, Balance
  <1>10. m + PerTurn + Cardinality(Left(c)') <= PerTurn + Cardinality(Others) + x
    <2> HIDE DEF m
    <2>1. m \in Int
      BY <1>8 DEF m
    <2>2. CASE h \in Broken
      <3>1. h \notin Raised(c)
        BY <1>2 DEF Raised
      <3>2. Cardinality(Raised(c)) + 1 <= Cardinality(Broken)
        BY <1>4, <2>2, <3>1, LargerHasMore
      <3> QED
        BY <1>4, <1>6, <1>7, <1>8, <1>9, <2>1, <3>2
    <2>3. CASE h \notin Broken
      <3>1. h \in Left(c) /\ h \notin Left(c)'
        BY <1>2, <1>3, <2>3 DEF Left, Healthy
      <3>2. Cardinality(Left(c)') + 1 <= Cardinality(Left(c))
        BY <1>4, <1>5, <3>1, LargerHasMore
      <3> QED
        BY <1>4, <1>6, <1>7, <1>8, <1>9, <2>1, <3>2
    <2> QED
      BY <2>2, <2>3
  <1>11. Balance(c, k + 1, x)'
    <2>1. processed'[c] = 0 /\ Cardinality(Raised(c)') = 0 /\ Cardinality(Left(c)') \in Nat
      BY <1>4
    <2> QED
      BY <1>8, <1>10, <2>1 DEF Balance
  <1>12. Reaches(c)'
    BY <1>1 DEF Reaches
  <1> QED
    BY <1>11, <1>12 DEF Fair

(* The first end since Watched was fetched, of a call that had begun before. *)
LEMMA FreshEnd ==
    ASSUME Basics, Basics', Sane, NEW c \in Calls,
           current'[c] = Idle, DOMAIN due'[c] = {}, processed'[c] = 0
    PROVE  Fair(c, 1, 0)'
  <1>1. ~Running(c)'
    BY DEF Running
  <1>2. ToCome(c)' = {} /\ Raised(c)' = {}
    BY <1>1 DEF Raised, ToCome
  <1>3. Watched \notin Ahead'
    BY DEF Basics, TypeOK, Ordered, Ahead, There
  <1>4. Left(c)' \subseteq Others
    BY <1>2, <1>3 DEF Left, Others
  <1>5. Cardinality(Left(c)') \in Nat /\ Cardinality(Left(c)') <= Cardinality(Others)
    BY <1>4, Sizes, LargerHasMore
  <1>6. Cardinality(Raised(c)') = 0
    BY <1>2, FS_EmptySet
  <1>7. Balance(c, 1, 0)'
    BY <1>5, <1>6, Sizes DEF Balance
  <1> QED
    BY <1>1, <1>7 DEF Fair, Reaches

(* A list that is read by a call whose earlier passes are accounted for, or not. *)
LEMMA ListKeeps ==
    ASSUME Basics, Basics', Sane, There, NEW c \in Calls, List(c),
           NEW k \in Nat, NEW x \in Nat, Fair(c, k, x) \/ (k = 0 /\ x = 0)
    PROVE  Fair(c, k, x)'
  <1>1. PICK first \in SUBSET Refreshable :
          /\ \A u \in first : Due[u] \subseteq first
          /\ \/ Cardinality(first) = BatchLimit
             \/ Cardinality(first) < BatchLimit /\ first = Refreshable
          /\ due' = [due EXCEPT ![c] = Without(Due, Refreshable \ first)]
    BY DEF List
  <1>2. /\ DOMAIN due'[c] = first /\ first \subseteq Usernames
        /\ \A u \in Refreshable : Due[u] = queue[u] \ Ingests
        /\ \A u \in first : due'[c][u] = Due[u] \cap first
        /\ Ordered(Due) /\ DOMAIN Due = Refreshable
    BY <1>1, ListOrders DEF Basics, TypeOK
  <1>3. /\ current[c] = Idle /\ ~Running(c) /\ processed[c] = 0
        /\ current'[c] = Idle /\ processed'[c] = 0 /\ Busy(c)' = 0
        /\ Ahead' = Ahead /\ Watched # Idle
    BY Facts DEF List, Basics, CallAgrees, Running, Busy, Ahead, There
  <1>4. Watched \in Refreshable
    BY Facts DEF Refreshable, There
  <1>5. ToCome(c)' \subseteq Ahead
    <2>1. CASE Watched \in first
      <3>1. ToCome(c)' = Due[Watched] \cap first
        BY <1>2, <1>3, <2>1 DEF ToCome
      <3> QED
        BY <1>2, <1>4, <3>1 DEF Ahead
    <2>2. CASE Watched \notin first
      <3>1. ToCome(c)' = first
        BY <1>2, <1>3, <2>2 DEF ToCome
      <3>2. ASSUME NEW v \in first PROVE v \in Due[Watched]
        <4>1. v = Watched \/ v \in Due[Watched] \/ Watched \in Due[v]
          BY <1>2, <1>4 DEF Ordered
        <4> QED
          BY <1>1, <2>2, <4>1
      <3> QED
        BY <1>2, <1>4, <3>1, <3>2 DEF Ahead
    <2> QED
      BY <2>1, <2>2
  <1>6. Left(c)' = Ahead \cap Healthy
    BY <1>3, <1>5 DEF Left
  <1>7. /\ Left(c) \subseteq Usernames /\ Left(c)' \subseteq Usernames
        /\ Cardinality(Left(c)) \in Nat /\ Cardinality(Left(c)') \in Nat
        /\ Cardinality(Raised(c)) \in Nat /\ Cardinality(Raised(c)') \in Nat
        /\ Watched \notin Ahead
    BY SetsOfCalls, SetsOfCallsNext
  <1>8. Reaches(c)'
    <2>1. Watched \notin first => Cardinality(first) = BatchLimit
      BY <1>1, <1>4
    <2> QED
      BY <1>2, <1>3, <2>1, Facts DEF Reaches, Handled
  <1> DEFINE m == PerTurn * k
  <1>9. m \in Int /\ PerTurn \in Int /\ PerTurn >= 1 /\ Cardinality(Others) \in Nat
    BY Sizes
  <1>10. m + Cardinality(Left(c)') <= PerTurn + Cardinality(Others) + x + Cardinality(Raised(c)')
    <2>1. ASSUME Fair(c, k, x)
          PROVE  m + Cardinality(Left(c)')
                    <= PerTurn + Cardinality(Others) + x + Cardinality(Raised(c)')
      <3>1. Left(c)' \subseteq Left(c)
        BY DEF Left
      <3>2. Cardinality(Left(c)') <= Cardinality(Left(c))
        BY <1>7, <3>1, LargerHasMore
      <3>3. Cardinality(Raised(c)) = 0
        BY <1>3, FS_EmptySet DEF Raised
      <3>4. m + Cardinality(Left(c)) <= PerTurn + Cardinality(Others) + x
        BY <1>3, <1>7, <1>9, <2>1, <3>3 DEF Fair, Balance
      <3> HIDE DEF m
      <3> QED
        BY <1>7, <1>9, <3>2, <3>4
    <2>2. ASSUME k = 0, x = 0
          PROVE  m + Cardinality(Left(c)')
                    <= PerTurn + Cardinality(Others) + x + Cardinality(Raised(c)')
      <3>1. Left(c)' \subseteq Others
        BY <1>6, <1>7 DEF Others
      <3>2. Cardinality(Left(c)') <= Cardinality(Others)
        BY <3>1, Sizes, LargerHasMore
      <3>3. m = 0
        BY <1>9, <2>2
      <3> HIDE DEF m
      <3> QED
        BY <1>7, <1>9, <2>2, <3>2, <3>3
    <2> QED
      BY <2>1, <2>2
  <1>11. Balance(c, k, x)'
    BY <1>3, <1>7, <1>9, <1>10 DEF Balance
  <1> QED
    BY <1>8, <1>11 DEF Fair

(* The call begins the oldest channel of its list. *)
LEMMA BeginKeeps ==
    ASSUME Basics, Basics', Sane, NEW c \in Calls, Begin(c),
           Ahead' \subseteq Ahead,
           NEW k \in Nat, NEW x \in Nat, Fair(c, k, x)
    PROVE  Fair(c, k, x)'
  <1>1. PICK u \in DOMAIN due[c] :
          due[c][u] = {} /\ Begun(c, u) /\ due' = [due EXCEPT ![c] = Without(@, {u})]
    BY DEF Begin
  <1>2. TypeOK /\ c \in Ingests /\ u \in Usernames /\ u # Idle /\ Ordered(due[c])
        /\ Watched # Idle
    BY Facts DEF Basics, TypeOK
  <1>3. due'[c] = Without(due[c], {u})
    BY <1>1, <1>2 DEF TypeOK
  <1>4. /\ DOMAIN due'[c] = DOMAIN due[c] \ {u}
        /\ \A v \in DOMAIN due[c] \ {u} : due'[c][v] = due[c][v] \ {u}
    <2> DEFINE new == Without(due[c], {u})
    <2>1. /\ DOMAIN new = DOMAIN due[c] \ {u}
          /\ \A v \in DOMAIN due[c] \ {u} : new[v] = due[c][v] \ {u}
      BY <1>2, WithoutOrders
    <2> QED
      BY <1>3, <2>1
  <1>5. current[c] = Idle /\ current'[c] = u
    BY <1>1, <1>2 DEF Begun, TypeOK
  <1>6. Running(c) /\ Running(c)' /\ Busy(c) = 0 /\ Busy(c)' = 1 /\ processed'[c] = processed[c]
    BY <1>2, <1>5 DEF Running, Busy, Begin
  <1>7. Cardinality(DOMAIN due[c]) \in Nat
        /\ Cardinality(DOMAIN due'[c]) = Cardinality(DOMAIN due[c]) - 1
    BY <1>2, <1>4, Facts, FS_RemoveElement DEF TypeOK
  <1>8. processed[c] \in Nat
    BY SetsOfCalls
  <1>9. Handled(c)' = Handled(c)
    BY <1>6, <1>7, <1>8 DEF Handled
  <1>10. Reaches(c)'
    BY <1>4, <1>5, <1>6, <1>9, <1>2 DEF Fair, Reaches
  <1>11. ToCome(c)' \subseteq ToCome(c)
    <2>1. CASE u = Watched
      BY <1>5, <2>1 DEF ToCome
    <2>2. CASE u # Watched /\ Watched \in DOMAIN due[c]
      <3>1. u \in due[c][Watched]
        BY <1>1, <1>2, <2>2 DEF Ordered
      <3> QED
        BY <1>2, <1>4, <1>5, <3>1 DEF ToCome
    <2>3. CASE u # Watched /\ Watched \notin DOMAIN due[c]
      BY <1>2, <1>4, <1>5, <2>3 DEF ToCome
    <2> QED
      BY <2>1, <2>2, <2>3
  <1>12. Left(c)' \subseteq Left(c) /\ Raised(c) \subseteq Raised(c)'
    BY <1>6, <1>11 DEF Left, Raised
  <1>13. /\ Left(c) \subseteq Usernames /\ Raised(c)' \subseteq Usernames
         /\ Cardinality(Left(c)) \in Nat /\ Cardinality(Left(c)') \in Nat
         /\ Cardinality(Raised(c)) \in Nat /\ Cardinality(Raised(c)') \in Nat
    BY SetsOfCalls, SetsOfCallsNext
  <1>14. /\ Cardinality(Left(c)') <= Cardinality(Left(c))
         /\ Cardinality(Raised(c)) <= Cardinality(Raised(c)')
    BY <1>12, <1>13, LargerHasMore
  <1> DEFINE m == PerTurn * k
  <1>15. m \in Int /\ PerTurn \in Int /\ Cardinality(Others) \in Nat
    BY Sizes
  <1>16. m + Cardinality(Left(c)) + processed[c]
            <= PerTurn + Cardinality(Others) + x + Cardinality(Raised(c))
    BY DEF Fair, Balance
  <1>17. m + Cardinality(Left(c)') + processed[c]
            <= PerTurn + Cardinality(Others) + x + Cardinality(Raised(c)')
         => Balance(c, k, x)'
    BY <1>6 DEF Balance
  <1> HIDE DEF m
  <1>18. Balance(c, k, x)'
    BY <1>8, <1>13, <1>14, <1>15, <1>16, <1>17
  <1> QED
    BY <1>10, <1>18 DEF Fair

(* What comes before Watched when an ingest of another channel has ended. *)
LEMMA AheadAfter ==
    ASSUME Basics, NEW i \in Ingests, current[i] # Idle, There, There',
           (Committed(i) /\ current[i] # Watched) \/ RolledBack(i),
           current' = [current EXCEPT ![i] = Idle]
    PROVE  /\ Ahead' \subseteq (Ahead \ {i}) \cup {current[i]}
           /\ i \notin Ahead => Ahead' \subseteq Ahead
           /\ i \notin Ahead /\ Committed(i) /\ current[i] # Watched => current[i] \notin Ahead'
           /\ Early' \subseteq Early \ {i}
  <1>1. TypeOK /\ current[i] \notin Ingests /\ Watched # i
    BY Facts DEF Basics, TypeOK
  <1>2. Ahead = queue[Watched] /\ Ahead' = queue'[Watched]
    BY DEF Ahead
  <1>3. CASE Committed(i) /\ current[i] # Watched
    <2>1. Watched \in DOMAIN queue \ {i, current[i]}
      BY <1>1, <1>3 DEF There
    <2>2. /\ queue'[Watched] \subseteq (queue[Watched] \ {i, current[i]})
                                  \cup (IF i \in queue[Watched] THEN {current[i]} ELSE {})
      BY <1>1, <1>3, <2>1, CommittedOrders DEF TypeOK
    <2> QED
      BY <1>1, <1>2, <2>2 DEF Early
  <1>4. CASE RolledBack(i) /\ ~(Committed(i) /\ current[i] # Watched)
    <2> DEFINE new == Without(queue, {i})
    <2>1. Ordered(queue)
      BY <1>1 DEF TypeOK
    <2>2. \A x \in DOMAIN queue \ {i} : new[x] = queue[x] \ {i}
      BY <2>1, WithoutOrders
    <2>3. queue' = new
      BY <1>4 DEF RolledBack
    <2> HIDE DEF new
    <2>4. queue'[Watched] = queue[Watched] \ {i}
      BY <1>1, <2>2, <2>3 DEF There
    <2> QED
      BY <1>2, <1>4, <2>4 DEF Early
  <1> QED
    BY <1>3, <1>4
-----------------------------------------------------------------------------
(***************************************************************************)
(* The accounts.  old are the calls whose present pass may have begun      *)
(* before Watched was last fetched: they have missed nothing since. A miss *)
(* of another call is paid for with one of its 1 + Turns turns, or with a  *)
(* cost <<c, i>>: i, an ingest that had begun before Watched was fetched,  *)
(* has since then put its channel ahead of it.  An ingest does so once,    *)
(* because it is not early any more; and of two calls at most one is       *)
(* charged for the other, because a call that is charged is past its old   *)
(* pass, and what it ingests is not early.  Hence there are at most        *)
(* overlap * (overlap - 1) / 2 costs for calls, and overlap *              *)
(* Cardinality(Jobs) for jobs.                                             *)
(***************************************************************************)
Of(S, c) == {e \in S : e[1] = c}

Misses(turns, paid, c) == Cardinality(Of(turns, c)) + Cardinality(Of(paid, c))

AllCosts == Calls \X Ingests

AllTurns == Calls \X (1 .. 1 + Turns)

Books(old, costs, turns, paid) ==
    /\ old \subseteq Calls /\ costs \subseteq AllCosts
    /\ turns \subseteq AllTurns /\ paid \subseteq costs
    /\ \A e \in turns : e[1] \notin old

Ledger(old, costs) ==
    /\ Early \cap Calls \subseteq old
    /\ \A e \in costs : /\ e[1] \notin old /\ e[2] \notin Early
                        /\ e[1] # e[2] /\ <<e[2], e[1]>> \notin costs

Accounts(old, costs, turns, paid) ==
    /\ Books(old, costs, turns, paid)
    /\ missed = Cardinality(turns) + Cardinality(paid)
    /\ Ledger(old, costs)
    /\ \A c \in Calls \ old : Fair(c, Misses(turns, paid, c), Cardinality(Of(costs, c)))

Accounted ==
    \E old, costs, turns, paid : Accounts(old, costs, turns, paid)

IInv == Basics /\ (Sane => Accounted)

(***************************************************************************)
(* 1 + Turns passes of PerTurn healthy channels each are more than there   *)
(* are others.                                                             *)
(***************************************************************************)
LEMMA TurnsAreFew ==
    ASSUME Sane
    PROVE  /\ Turns \in Nat
           /\ Cardinality(Others) < PerTurn * (1 + Turns)
  <1>1. IsFiniteSet(Healthy) /\ Watched \in Healthy /\ Cardinality(Healthy) \in Nat
    BY Sizes, Facts
  <1>2. Cardinality(Others) = Cardinality(Healthy) - 1
    BY <1>1, FS_RemoveElement DEF Others
  <1>3. Turns = Cardinality(Others) \div PerTurn
    BY <1>2 DEF Turns, Healthy, PerTurn
  <1> DEFINE o == Cardinality(Others)
             p == PerTurn
  <1>4. o \in Nat /\ p \in Nat /\ p >= 1
    BY Sizes
  <1> HIDE DEF o, p
  <1>5. o \div p \in Nat /\ o < p * (1 + o \div p)
    BY <1>4
  <1> QED
    BY <1>3, <1>5 DEF o, p

(* The accounts are finite sets, and so are their parts. *)
LEMMA FiniteAccounts ==
    /\ \A S \in SUBSET AllCosts : IsFiniteSet(S) /\ Cardinality(S) \in Nat
    /\ Sane => \A S \in SUBSET AllTurns : IsFiniteSet(S) /\ Cardinality(S) \in Nat
    /\ \A S : \A T \in SUBSET S : IsFiniteSet(S) =>
          /\ IsFiniteSet(T) /\ Cardinality(T) \in Nat /\ Cardinality(S) \in Nat
          /\ Cardinality(T) <= Cardinality(S)
    /\ \A S, c : Of(S, c) \subseteq S
  <1>1. IsFiniteSet(AllCosts)
    BY Facts, FS_Product DEF AllCosts
  <1>2. Sane => IsFiniteSet(AllTurns)
    <2>1. Sane => IsFiniteSet(1 .. 1 + Turns)
      BY TurnsAreFew, FS_Interval
    <2> QED
      BY <2>1, Facts, FS_Product DEF AllTurns
  <1> QED
    BY <1>1, <1>2, FS_Subset, FS_CardinalityType DEF Of

(* One entry more counts for the call it is of. *)
LEMMA OneMore ==
    ASSUME NEW S, IsFiniteSet(S), NEW e, e \notin S
    PROVE  /\ Cardinality(S \cup {e}) = Cardinality(S) + 1
           /\ \A c : Cardinality(Of(S \cup {e}, c)) =
                 IF c = e[1] THEN Cardinality(Of(S, c)) + 1 ELSE Cardinality(Of(S, c))
  <1>1. ASSUME NEW c
        PROVE  Cardinality(Of(S \cup {e}, c)) =
                 IF c = e[1] THEN Cardinality(Of(S, c)) + 1 ELSE Cardinality(Of(S, c))
    <2>1. IsFiniteSet(Of(S, c))
      BY FS_Subset DEF Of
    <2>2. CASE e[1] = c
      <3>1. Of(S \cup {e}, c) = Of(S, c) \cup {e} /\ e \notin Of(S, c)
        BY <2>2 DEF Of
      <3>2. Cardinality(Of(S, c) \cup {e}) = Cardinality(Of(S, c)) + 1
        BY <2>1, <3>1, FS_AddElement
      <3> QED
        BY <2>2, <3>1, <3>2
    <2>3. CASE e[1] # c
      <3>1. Of(S \cup {e}, c) = Of(S, c)
        BY <2>3 DEF Of
      <3> QED
        BY <2>3, <3>1
    <2> QED
      BY <2>2, <2>3
  <1> QED
    BY <1>1, FS_AddElement

(* A call that has a turn or a cost left can pay for one more miss. *)
LEMMA MissIsCounted ==
    ASSUME Sane, NEW old, NEW costs, NEW turns, NEW paid, Books(old, costs, turns, paid),
           NEW c \in Calls,
           \/ Cardinality(Of(turns, c)) < 1 + Turns
           \/ Cardinality(Of(paid, c)) < Cardinality(Of(costs, c))
    PROVE  \E more, spent :
              /\ Books(old \ {c}, costs, more, spent)
              /\ Cardinality(more) + Cardinality(spent) =
                    Cardinality(turns) + Cardinality(paid) + 1
              /\ Misses(more, spent, c) = Misses(turns, paid, c) + 1
              /\ \A d \in Calls \ {c} : Misses(more, spent, d) = Misses(turns, paid, d)
  <1>1. /\ IsFiniteSet(turns) /\ IsFiniteSet(paid) /\ IsFiniteSet(costs)
        /\ Cardinality(turns) \in Nat /\ Cardinality(paid) \in Nat
    BY FiniteAccounts DEF Books
  <1>2. \A d : Cardinality(Of(turns, d)) \in Nat /\ Cardinality(Of(paid, d)) \in Nat
    BY <1>1, FiniteAccounts
  <1>3. CASE Cardinality(Of(turns, c)) < 1 + Turns
    <2>1. PICK s \in 1 .. 1 + Turns : <<c, s>> \notin turns
      <3>1. SUFFICES ASSUME \A s \in 1 .. 1 + Turns : <<c, s>> \in turns PROVE FALSE
        OBVIOUS
      <3>2. Turns \in Nat /\ IsFiniteSet(1 .. 1 + Turns)
            /\ Cardinality(1 .. 1 + Turns) = 1 + Turns
        BY TurnsAreFew, FS_Interval
      <3>3. IsFiniteSet({c} \X (1 .. 1 + Turns))
            /\ Cardinality({c} \X (1 .. 1 + Turns)) = 1 + Turns
        <4>1. IsFiniteSet({c}) /\ Cardinality({c}) = 1
          BY FS_Singleton
        <4>2. /\ IsFiniteSet({c} \X (1 .. 1 + Turns))
              /\ Cardinality({c} \X (1 .. 1 + Turns)) = 1 * (1 + Turns)
          BY <3>2, <4>1, FS_Product
        <4> QED
          BY <3>2, <4>2
      <3>4. {c} \X (1 .. 1 + Turns) \subseteq Of(turns, c)
        BY <3>1 DEF Of
      <3>5. 1 + Turns <= Cardinality(Of(turns, c))
        BY <1>1, <3>3, <3>4, FiniteAccounts
      <3> QED
        BY <1>2, <1>3, <3>2, <3>5
    <2> DEFINE more == turns \cup {<<c, s>>}
    <2>2. Books(old \ {c}, costs, more, paid)
      BY DEF Books, AllTurns
    <2>3. /\ Cardinality(more) = Cardinality(turns) + 1
          /\ \A d : Cardinality(Of(more, d)) =
                IF d = c THEN Cardinality(Of(turns, d)) + 1 ELSE Cardinality(Of(turns, d))
      BY <1>1, <2>1, OneMore
    <2> HIDE DEF more
    <2> QED
      BY <1>1, <1>2, <2>2, <2>3 DEF Misses
  <1>4. CASE Cardinality(Of(paid, c)) < Cardinality(Of(costs, c))
    <2>1. PICK e \in Of(costs, c) : e \notin paid
      <3>1. SUFFICES ASSUME Of(costs, c) \subseteq paid PROVE FALSE
        OBVIOUS
      <3>2. Of(costs, c) = Of(paid, c)
        BY <3>1 DEF Of, Books
      <3> QED
        BY <1>2, <1>4, <3>2
    <2> DEFINE spent == paid \cup {e}
    <2>2. Books(old \ {c}, costs, turns, spent)
      BY DEF Of, Books
    <2>3. e[1] = c
      BY DEF Of
    <2>4. /\ Cardinality(spent) = Cardinality(paid) + 1
          /\ \A d : Cardinality(Of(spent, d)) =
                IF d = e[1] THEN Cardinality(Of(paid, d)) + 1 ELSE Cardinality(Of(paid, d))
      <3>1. IsFiniteSet(paid) /\ e \notin paid
        BY <1>1, <2>1
      <3> QED
        BY <3>1, OneMore
    <2> HIDE DEF spent
    <2> QED
      BY <1>1, <1>2, <2>2, <2>3, <2>4 DEF Misses
  <1> QED
    BY <1>3, <1>4

(* A call with one miss more than its turns has been set back for each of the others. *)
LEMMA MissIsDue ==
    ASSUME Basics', Sane, NEW old, NEW costs, NEW turns, NEW paid,
           Books(old, costs, turns, paid), NEW c \in Calls,
           Balance(c, Misses(turns, paid, c) + 1, Cardinality(Of(costs, c)))', ~Running(c)'
    PROVE  \/ Cardinality(Of(turns, c)) < 1 + Turns
           \/ Cardinality(Of(paid, c)) < Cardinality(Of(costs, c))
  <1> DEFINE t == Cardinality(Of(turns, c))
             p == Cardinality(Of(paid, c))
             x == Cardinality(Of(costs, c))
             o == Cardinality(Others)
             q == PerTurn
  <1>1. t \in Nat /\ p \in Nat /\ x \in Nat
    <2>1. IsFiniteSet(turns) /\ IsFiniteSet(paid) /\ IsFiniteSet(costs)
      BY FiniteAccounts DEF Books
    <2> QED
      BY <2>1, FiniteAccounts
  <1>2. o \in Nat /\ q \in Nat /\ q >= 1 /\ Turns \in Nat /\ o < q * (1 + Turns)
    BY Sizes, TurnsAreFew
  <1>3. q * (t + p + 1) <= q + o + x
    <2>1. Raised(c)' = {} /\ Cardinality(Raised(c)') = 0
      BY FS_EmptySet DEF Raised
    <2>2. Cardinality(Left(c)') \in Nat /\ processed'[c] \in Nat
      BY SetsOfCallsNext DEF Basics, TypeOK
    <2>3. q * (t + p + 1) + Cardinality(Left(c)') + processed'[c]
             <= q + o + x + Cardinality(Raised(c)')
      BY DEF Balance, Misses
    <2>4. q * (t + p + 1) \in Nat
      BY <1>1, <1>2
    <2> HIDE DEF t, p, x, o, q
    <2> QED
      BY <1>1, <1>2, <2>1, <2>2, <2>3, <2>4
  <1> HIDE DEF t, p, x, o, q
  <1>4. SUFFICES ASSUME t >= 1 + Turns, p >= x PROVE FALSE
    BY <1>1, <1>2 DEF t, p, x
  <1>5. q * (t + p + 1) >= q * (1 + Turns + x + 1)
    BY <1>1, <1>2, <1>4
  <1>6. q * (1 + Turns + x + 1) = q * (1 + Turns) + q * x + q
    BY <1>1, <1>2
  <1>7. q * x >= x /\ q * x \in Nat /\ q * (1 + Turns) \in Nat
    BY <1>1, <1>2
  <1> QED
    BY <1>1, <1>2, <1>3, <1>5, <1>6, <1>7
-----------------------------------------------------------------------------
(***************************************************************************)
(* When Watched has just been fetched the accounts start anew: every pass  *)
(* under way is old.                                                       *)
(***************************************************************************)
LEMMA NothingMissed ==
    ASSUME missed' = 0
    PROVE  Accounted'
  <1>1. Accounts(Calls, {}, {}, {})'
    BY FS_EmptySet DEF Accounts, Ledger, Books
  <1> QED
    BY <1>1 DEF Accounted

(* The ingest i, and only it, may leave Early. *)
Leaves(i) == Early' \subseteq Early \ {i}

(* Charge every call that has begun since for the ingest i, if that has begun before. *)
Charged(old, costs, i, new) ==
    new = costs \cup {e \in (Calls \ old) \X {i} : i \in Early /\ e[1] # i}

(***************************************************************************)
(* Charging for an ingest that ends keeps the books: it was early and is   *)
(* not, and so it has not been charged for before, and if it is a call it  *)
(* was old and has not been charged.                                       *)
(***************************************************************************)
LEMMA ChargedCosts ==
    ASSUME NEW old, NEW costs, NEW turns, NEW paid, Books(old, costs, turns, paid),
           NEW i \in Ingests,
           Ledger(old, costs), Leaves(i),
           NEW new, Charged(old, costs, i, new)
    PROVE  /\ Books(old, new, turns, paid)
           /\ Ledger(old, new)'
           /\ Ledger(old \ {i}, new)'
           /\ Of(new, i) = Of(costs, i)
  <1>1. new \subseteq AllCosts /\ Books(old, new, turns, paid)
    BY DEF AllCosts, Charged, Books
  <1>2. \A e \in new : e[1] \notin old /\ e[2] \notin Early' /\ e[1] # e[2]
    BY DEF Charged, Ledger, Leaves
  <1>3. Early' \cap Calls \subseteq old \ {i}
    BY DEF Ledger, Leaves
  <1>4. ASSUME NEW e \in new PROVE <<e[2], e[1]>> \notin new
    <2>1. e[1] \in Calls /\ e[1] \notin old
      BY <1>1, <1>2 DEF AllCosts
    <2>2. e \in costs => <<e[2], e[1]>> \notin costs
      BY DEF Ledger
    <2>3. e \in costs => ~(e[1] = i /\ i \in Early)
      BY <2>1 DEF Ledger
    <2>4. e \notin costs => e[2] = i /\ i \in Early /\ e[1] # i
      BY DEF Charged
    <2>5. \A f \in costs : f[1] \in Calls /\ f[1] \notin old
      BY DEF Ledger, AllCosts, Books
    <2>6. <<e[2], e[1]>> \in costs => e[2] \in Calls /\ e[2] \notin old
      BY <2>5
    <2>7. e[2] = i /\ i \in Early /\ e[2] \in Calls => e[2] \in old
      BY DEF Ledger
    <2>8. <<e[2], e[1]>> \in new => \/ <<e[2], e[1]>> \in costs
                                    \/ e[1] = i /\ i \in Early /\ e[2] # i
      BY DEF Charged
    <2> QED
      BY <2>2, <2>3, <2>4, <2>6, <2>7, <2>8
  <1>5. Of(new, i) = Of(costs, i)
    BY DEF Of, Charged
  <1> QED
    BY <1>1, <1>2, <1>3, <1>4, <1>5 DEF Ledger

(***************************************************************************)
(* Who has begun since is charged once for an early ingest, and not for    *)
(* another.                                                                *)
(***************************************************************************)
LEMMA ChargedCounts ==
    ASSUME NEW old, NEW costs, NEW turns, NEW paid, Books(old, costs, turns, paid),
           NEW i \in Ingests, Ledger(old, costs), NEW new, Charged(old, costs, i, new),
           NEW d \in Calls \ old, d # i
    PROVE  Cardinality(Of(new, d)) =
              IF i \in Early THEN Cardinality(Of(costs, d)) + 1 ELSE Cardinality(Of(costs, d))
  <1>1. CASE i \notin Early
    <2>1. Of(new, d) = Of(costs, d)
      BY <1>1 DEF Charged
    <2> QED
      BY <1>1, <2>1
  <1>2. CASE i \in Early
    <2>1. Of(new, d) = Of(costs, d) \cup {<<d, i>>}
      BY <1>2 DEF Of, Charged
    <2>2. <<d, i>> \notin Of(costs, d)
      BY <1>2 DEF Of, Ledger
    <2>3. IsFiniteSet(Of(costs, d))
      BY FiniteAccounts DEF Books
    <2> QED
      BY <1>2, <2>1, <2>2, <2>3, FS_AddElement
  <1> QED
    BY <1>1, <1>2

(* What a call has missed, and what it was charged for, are numbers. *)
LEMMA CountsAreNaturals ==
    ASSUME Sane, NEW old, NEW costs, NEW turns, NEW paid, Books(old, costs, turns, paid), NEW c
    PROVE  /\ Misses(turns, paid, c) \in Nat
           /\ Cardinality(Of(costs, c)) \in Nat
  <1>1. IsFiniteSet(turns) /\ IsFiniteSet(paid) /\ IsFiniteSet(costs)
    BY FiniteAccounts DEF Books
  <1> QED
    BY <1>1, FiniteAccounts DEF Misses

(* Without an end or a fetch of Watched. *)
LEMMA QuietKeeps ==
    ASSUME Sane, missed' = missed, Early' \subseteq Early,
           NEW old, NEW costs, NEW turns, NEW paid,
           Accounts(old, costs, turns, paid),
           NEW left \in SUBSET old, Early' \cap Calls \subseteq left,
           \A c \in Calls \ left : Fair(c, Misses(turns, paid, c), Cardinality(Of(costs, c)))'
    PROVE  Accounted'
  <1>1. Accounts(left, costs, turns, paid)'
    BY DEF Accounts, Ledger, Books
  <1> QED
    BY <1>1 DEF Accounted

(***************************************************************************)
(* Who has begun since Watched was fetched is even after being charged for *)
(* the end of an ingest.                                                   *)
(***************************************************************************)
LEMMA OthersStayFair ==
    ASSUME Basics, Basics', Sane, There, There', NEW i \in Ingests, current[i] # Idle,
           (Committed(i) /\ current[i] # Watched) \/ RolledBack(i),
           current' = [current EXCEPT ![i] = Idle],
           NEW old, NEW costs, NEW turns, NEW paid, Books(old, costs, turns, paid),
           Ledger(old, costs),
           NEW c \in Calls \ old, c # i, due'[c] = due[c], processed'[c] = processed[c],
           NEW new, Charged(old, costs, i, new),
           NEW k \in Nat, Fair(c, k, Cardinality(Of(costs, c)))
    PROVE  Fair(c, k, Cardinality(Of(new, c)))'
  <1>1. /\ Ahead' \subseteq (Ahead \ {i}) \cup {current[i]}
        /\ i \notin Ahead => Ahead' \subseteq Ahead
        /\ Leaves(i) /\ i \in Ingests
    BY AheadAfter DEF Leaves
  <1>2. Cardinality(Of(new, c)) =
           IF i \in Early THEN Cardinality(Of(costs, c)) + 1 ELSE Cardinality(Of(costs, c))
    BY ChargedCounts
  <1>3. current'[c] = current[c]
    OBVIOUS
  <1>4. Cardinality(Of(costs, c)) \in Nat
    <2>1. IsFiniteSet(costs)
      BY FiniteAccounts DEF Books
    <2> QED
      BY <2>1, FiniteAccounts
  <1>5. i \in Early <=> i \in Ahead
    BY DEF Early
  <1> DEFINE x == Cardinality(Of(costs, c))
             y == Cardinality(Of(new, c))
  <1>6. \/ Ahead' \cap Healthy \subseteq Ahead /\ y >= x
        \/ Ahead' \cap Healthy \subseteq Ahead \cup {current[i]} /\ y = x + 1
    BY <1>1, <1>2, <1>4, <1>5
  <1>7. x \in Nat /\ y \in Nat
    BY <1>2, <1>4
  <1>8. Fair(c, k, x)
    OBVIOUS
  <1> HIDE DEF x, y
  <1>9. Fair(c, k, y)'
    BY <1>3, <1>6, <1>7, <1>8, BystanderKeeps
  <1> QED
    BY <1>9 DEF y

(* An ingest has ended, but no call. *)
LEMMA IngestEndedKeeps ==
    ASSUME Basics, Basics', Sane, There, There', NEW i \in Ingests, current[i] # Idle,
           (Committed(i) /\ current[i] # Watched) \/ RolledBack(i),
           current' = [current EXCEPT ![i] = Idle],
           missed' = missed,
           \A c \in Calls \ {i} : due'[c] = due[c] /\ processed'[c] = processed[c],
           NEW old, NEW costs, NEW turns, NEW paid,
           Accounts(old, costs, turns, paid),
           i \in Calls \ old => Fair(i, Misses(turns, paid, i), Cardinality(Of(costs, i)))'
    PROVE  Accounted'
  <1>1. PICK new : Charged(old, costs, i, new)
    BY DEF Charged
  <1>2. Leaves(i) /\ i \in Ingests
    BY AheadAfter DEF Leaves
  <1>3. Ledger(old, costs) /\ Books(old, costs, turns, paid)
    BY DEF Accounts
  <1>4. Books(old, new, turns, paid) /\ Ledger(old, new)' /\ Of(new, i) = Of(costs, i)
    <2>1. Books(old, new, turns, paid)
      BY <1>1, <1>2, <1>3, ChargedCosts
    <2>2. Ledger(old, new)'
      BY <1>1, <1>2, <1>3, ChargedCosts
    <2>3. Of(new, i) = Of(costs, i)
      BY <1>1 DEF Charged, Of
    <2> QED
      BY <2>1, <2>2, <2>3
  <1>5. ASSUME NEW c \in Calls \ old
        PROVE  Fair(c, Misses(turns, paid, c), Cardinality(Of(new, c)))'
    <2>1. CASE c = i
      BY <1>4, <2>1
    <2>2. CASE c # i
      <3>1. Fair(c, Misses(turns, paid, c), Cardinality(Of(costs, c)))
        BY DEF Accounts
      <3>2. Misses(turns, paid, c) \in Nat
        BY <1>3, CountsAreNaturals
      <3>3. due'[c] = due[c] /\ processed'[c] = processed[c]
        BY <2>2
      <3> HIDE DEF Fair, Misses
      <3> QED
        BY <1>3, <2>2, <3>1, <3>2, <3>3, <1>1, OthersStayFair
    <2> QED
      BY <2>1, <2>2
  <1>6. Accounts(old, new, turns, paid)'
    BY <1>4, <1>5 DEF Accounts
  <1> QED
    BY <1>6 DEF Accounted

(* A call has ended that has left Watched out. *)
LEMMA CallEndedKeeps ==
    ASSUME Basics, Basics', Sane, There, There', NEW i \in Calls, current[i] # Idle,
           (Committed(i) /\ current[i] # Watched) \/ RolledBack(i),
           current' = [current EXCEPT ![i] = Idle],
           missed' = missed + 1, ~Running(i)',
           \A c \in Calls \ {i} : due'[c] = due[c] /\ processed'[c] = processed[c],
           NEW old, NEW costs, NEW turns, NEW paid,
           Accounts(old, costs, turns, paid),
           Fair(i, Misses(turns, paid, i) + 1, Cardinality(Of(costs, i)))'
    PROVE  Accounted'
  <1>1. PICK new : Charged(old, costs, i, new)
    BY DEF Charged
  <1>2. Leaves(i) /\ i \in Ingests
    BY AheadAfter, Facts DEF Leaves
  <1>3. Ledger(old, costs) /\ Books(old, costs, turns, paid)
    BY DEF Accounts
  <1>4. Books(old, new, turns, paid) /\ Ledger(old \ {i}, new)' /\ Of(new, i) = Of(costs, i)
    BY <1>1, <1>2, <1>3, ChargedCosts
  <1>5. costs \subseteq new
    BY <1>1 DEF Charged
  <1>6. \/ Cardinality(Of(turns, i)) < 1 + Turns
        \/ Cardinality(Of(paid, i)) < Cardinality(Of(costs, i))
    BY <1>3, MissIsDue DEF Fair
  <1>7. PICK more, spent :
              /\ Books(old \ {i}, costs, more, spent)
              /\ Cardinality(more) + Cardinality(spent) =
                    Cardinality(turns) + Cardinality(paid) + 1
              /\ Misses(more, spent, i) = Misses(turns, paid, i) + 1
              /\ \A d \in Calls \ {i} : Misses(more, spent, d) = Misses(turns, paid, d)
    BY <1>3, <1>6, MissIsCounted
  <1>8. ASSUME NEW c \in Calls \ (old \ {i})
        PROVE  Fair(c, Misses(more, spent, c), Cardinality(Of(new, c)))'
    <2>1. CASE c = i
      BY <1>4, <1>7, <2>1
    <2>2. CASE c # i
      <3>1. Fair(c, Misses(turns, paid, c), Cardinality(Of(costs, c)))
        BY <2>2 DEF Accounts
      <3>2. Misses(turns, paid, c) \in Nat /\ c \in Calls \ old
        BY <1>3, <2>2, CountsAreNaturals
      <3>3. due'[c] = due[c] /\ processed'[c] = processed[c]
        BY <2>2
      <3>4. Fair(c, Misses(turns, paid, c), Cardinality(Of(new, c)))'
        BY <1>2, <1>3, <2>2, <3>1, <3>2, <3>3, <1>1, OthersStayFair
      <3> QED
        BY <1>7, <2>2, <3>4
    <2> QED
      BY <2>1, <2>2
  <1>9. Accounts(old \ {i}, new, more, spent)'
    <2>1. missed' = Cardinality(more) + Cardinality(spent)
      BY <1>7 DEF Accounts
    <2>2. Books(old \ {i}, new, more, spent)
      BY <1>4, <1>5, <1>7 DEF Books
    <2> QED
      BY <1>4, <1>8, <2>1, <2>2 DEF Accounts
  <1> QED
    BY <1>9 DEF Accounted
-----------------------------------------------------------------------------
(* A step that changes at most the call who, and puts nothing before Watched. *)
LEMMA NothingEndedKeeps ==
    ASSUME Basics, Basics', Sane, missed' = missed, Ahead' \subseteq Ahead, NEW who,
           \A c \in Calls \ {who} : /\ due'[c] = due[c] /\ current'[c] = current[c]
                                    /\ processed'[c] = processed[c],
           NEW old, NEW costs, NEW turns, NEW paid, Accounts(old, costs, turns, paid),
           NEW left \in SUBSET old, Early' \cap Calls \subseteq left,
           old \subseteq left \cup {who},
           who \in Calls \ left =>
              Fair(who, Misses(turns, paid, who), Cardinality(Of(costs, who)))'
    PROVE  Accounted'
  <1>1. Books(old, costs, turns, paid)
    BY DEF Accounts
  <1>2. Early' \subseteq Early
    BY DEF Early
  <1>3. ASSUME NEW c \in Calls \ left
        PROVE  Fair(c, Misses(turns, paid, c), Cardinality(Of(costs, c)))'
    <2>1. CASE c = who
      BY <2>1
    <2>2. CASE c # who
      <3> DEFINE k == Misses(turns, paid, c)
                 x == Cardinality(Of(costs, c))
      <3>1. k \in Nat /\ x \in Nat
        BY <1>1, CountsAreNaturals
      <3>2. Fair(c, k, x) /\ c \in Calls
        BY <2>2 DEF Accounts
      <3>3. due'[c] = due[c] /\ current'[c] = current[c] /\ processed'[c] = processed[c]
        BY <2>2
      <3>4. Ahead' \cap Healthy \subseteq Ahead /\ x >= x
        BY <3>1
      <3> HIDE DEF k, x
      <3>5. Fair(c, k, x)'
        BY <3>1, <3>2, <3>3, <3>4, BystanderKeeps
      <3> QED
        BY <3>5 DEF k, x
    <2> QED
      BY <2>1, <2>2
  <1> QED
    BY <1>2, <1>3, QuietKeeps

(* What is withdrawn is no longer ahead. *)
LEMMA WithdrawnAccounted ==
    ASSUME Basics, Basics', Sane, Accounted, NEW u \in Usernames, Withdrawn(u)
    PROVE  Accounted'
  <1>1. CASE missed' = 0
    BY <1>1, NothingMissed
  <1>2. CASE missed' # 0
    <2>1. u # Watched /\ missed' = missed /\ There
      BY <1>2 DEF Withdrawn, Basics
    <2>2. queue' = Without(queue, {u})
      BY DEF Withdrawn
    <2>3. There' /\ queue'[Watched] \subseteq queue[Watched]
      BY <2>1, <2>2 DEF Without, There
    <2>4. Ahead' \subseteq Ahead
      BY <2>1, <2>3 DEF Ahead
    <2>5. PICK old, costs, turns, paid : Accounts(old, costs, turns, paid)
      BY DEF Accounted
    <2>6. Early' \cap Calls \subseteq old
      BY <2>4, <2>5 DEF Early, Accounts, Ledger
    <2>7. \A c \in Calls : /\ due'[c] = due[c] /\ current'[c] = current[c]
                           /\ processed'[c] = processed[c]
      BY DEF Withdrawn
    <2>8. Watched \notin Calls
      BY Facts
    <2> QED
      BY <2>1, <2>4, <2>5, <2>6, <2>7, <2>8, NothingEndedKeeps
  <1> QED
    BY <1>1, <1>2

(* An ingest that begins comes after Watched. *)
LEMMA BegunAhead ==
    ASSUME Basics, There, NEW i \in Ingests, NEW u \in Usernames, Begun(i, u)
    PROVE  There' /\ Ahead' = Ahead
  <1>1. TypeOK
    BY DEF Basics
  <1>2. /\ DOMAIN queue' = DOMAIN queue \cup {i}
        /\ \A x \in DOMAIN queue : queue'[x] = queue[x]
    BY <1>1, BegunOrders
  <1> QED
    BY <1>2 DEF There, Ahead

(* So nobody is charged for it yet. *)
LEMMA JobBeginsAccounted ==
    ASSUME Basics, Basics', Sane, Accounted, NEW j \in Jobs, NEW u \in Usernames, JobBegins(j, u)
    PROVE  Accounted'
  <1>1. CASE missed' = 0
    BY <1>1, NothingMissed
  <1>2. CASE missed' # 0
    <2>1. missed' = missed /\ There /\ j \in Ingests /\ Begun(j, u)
      BY <1>2, Facts DEF JobBegins, Basics
    <2>2. Ahead' \subseteq Ahead
      BY <2>1, BegunAhead
    <2>3. PICK old, costs, turns, paid : Accounts(old, costs, turns, paid)
      BY DEF Accounted
    <2>4. Early' \cap Calls \subseteq old
      BY <2>2, <2>3 DEF Early, Accounts, Ledger
    <2>5. j \notin Calls
      BY ActorsDiffer
    <2>6. \A c \in Calls : /\ due'[c] = due[c] /\ current'[c] = current[c]
                           /\ processed'[c] = processed[c]
      BY <2>5 DEF JobBegins, Begun
    <2> QED
      BY <2>1, <2>2, <2>3, <2>4, <2>5, <2>6, NothingEndedKeeps
  <1> QED
    BY <1>1, <1>2

(***************************************************************************)
(* A job that ends is charged for if it had begun before Watched was       *)
(* fetched.                                                                *)
(***************************************************************************)
LEMMA JobEndsAccounted ==
    ASSUME Basics, Basics', Sane, Accounted, NEW j \in Jobs, JobEnds(j)
    PROVE  Accounted'
  <1>1. CASE missed' = 0
    BY <1>1, NothingMissed
  <1>2. CASE missed' # 0
    <2>1. There /\ There' /\ missed' = missed
      BY <1>2 DEF JobEnds, Basics
    <2>2. (Committed(j) /\ current[j] # Watched) \/ RolledBack(j)
      BY <1>2 DEF JobEnds
    <2>3. j \in Ingests /\ j \notin Calls /\ current[j] # Idle
          /\ current' = [current EXCEPT ![j] = Idle]
      BY Facts, ActorsDiffer DEF JobEnds
    <2>4. \A c \in Calls \ {j} : due'[c] = due[c] /\ processed'[c] = processed[c]
      BY DEF JobEnds
    <2>5. PICK old, costs, turns, paid : Accounts(old, costs, turns, paid)
      BY DEF Accounted
    <2> QED
      BY <2>1, <2>2, <2>3, <2>4, <2>5, IngestEndedKeeps
  <1> QED
    BY <1>1, <1>2

(* A call that lists is not old any more: its pass begins now. *)
LEMMA ListAccounted ==
    ASSUME Basics, Basics', Sane, Accounted, NEW c \in Calls, List(c)
    PROVE  Accounted'
  <1>1. CASE missed' = 0
    BY <1>1, NothingMissed
  <1>2. CASE missed' # 0
    <2>1. There /\ missed' = missed /\ current[c] = Idle /\ Ahead' = Ahead
      BY <1>2 DEF List, Basics, Ahead
    <2>2. c \notin Early'
      BY <2>1 DEF Early, Ahead, Basics, TypeOK, Ordered, There
    <2>3. \A d \in Calls \ {c} : /\ due'[d] = due[d] /\ current'[d] = current[d]
                                 /\ processed'[d] = processed[d]
      BY DEF List
    <2>4. PICK old, costs, turns, paid : Accounts(old, costs, turns, paid)
      BY DEF Accounted
    <2> DEFINE k == Misses(turns, paid, c)
               x == Cardinality(Of(costs, c))
    <2>5. k \in Nat /\ x \in Nat
      BY <2>4, CountsAreNaturals DEF Accounts
    <2>6. Fair(c, k, x) \/ (k = 0 /\ x = 0)
      <3>1. CASE c \notin old
        BY <2>4, <3>1 DEF Accounts
      <3>2. CASE c \in old
        <4>1. Of(turns, c) = {} /\ Of(paid, c) = {} /\ Of(costs, c) = {}
          BY <2>4, <3>2 DEF Accounts, Books, Ledger, Of
        <4> QED
          BY <4>1, FS_EmptySet DEF Misses
      <3> QED
        BY <3>1, <3>2
    <2> HIDE DEF k, x
    <2>7. Fair(c, k, x)'
      BY <2>1, <2>5, <2>6, ListKeeps
    <2>8. Early' \cap Calls \subseteq old \ {c}
      BY <2>1, <2>2, <2>4 DEF Early, Accounts, Ledger
    <2> QED
      BY <2>1, <2>3, <2>4, <2>7, <2>8, NothingEndedKeeps DEF k, x
  <1> QED
    BY <1>1, <1>2

(***************************************************************************)
(* A call works through its list from the front, and its ingest comes last *)
(* in the queue.                                                           *)
(***************************************************************************)
LEMMA BeginAccounted ==
    ASSUME Basics, Basics', Sane, Accounted, NEW c \in Calls, Begin(c)
    PROVE  Accounted'
  <1>1. CASE missed' = 0
    BY <1>1, NothingMissed
  <1>2. CASE missed' # 0
    <2>1. There /\ missed' = missed /\ c \in Ingests
      BY <1>2, Facts DEF Begin, Basics
    <2>2. PICK u \in DOMAIN due[c] : Begun(c, u) /\ due' = [due EXCEPT ![c] = Without(@, {u})]
      BY DEF Begin
    <2>3. u \in Usernames
      BY DEF Basics, TypeOK
    <2>4. Ahead' \subseteq Ahead
      BY <2>1, <2>2, <2>3, BegunAhead
    <2>5. \A d \in Calls \ {c} : /\ due'[d] = due[d] /\ current'[d] = current[d]
                                 /\ processed'[d] = processed[d]
      BY DEF Begin, Begun
    <2>6. PICK old, costs, turns, paid : Accounts(old, costs, turns, paid)
      BY DEF Accounted
    <2> DEFINE k == Misses(turns, paid, c)
               x == Cardinality(Of(costs, c))
    <2>7. k \in Nat /\ x \in Nat
      BY <2>6, CountsAreNaturals DEF Accounts
    <2>8. c \in Calls \ old => Fair(c, k, x)
      BY <2>6 DEF Accounts
    <2> HIDE DEF k, x
    <2>9. c \in Calls \ old => Fair(c, k, x)'
      BY <2>4, <2>7, <2>8, BeginKeeps
    <2>10. Early' \cap Calls \subseteq old
      BY <2>4, <2>6 DEF Early, Accounts, Ledger
    <2> QED
      BY <2>1, <2>4, <2>5, <2>6, <2>9, <2>10, NothingEndedKeeps DEF k, x
  <1> QED
    BY <1>1, <1>2

(***************************************************************************)
(* A call that is done with a channel other than Watched goes on, or ends  *)
(* and pays for the miss.                                                  *)
(***************************************************************************)
LEMMA CallDoneAccounted ==
    ASSUME Basics, Basics', Sane, Accounted, NEW c \in Calls, Commit(c) \/ Raise(c)
    PROVE  Accounted'
  <1>1. CASE missed' = 0
    BY <1>1, NothingMissed
  <1>2. CASE missed' # 0
    <2>1. PICK fetched : Ended(c, fetched)
      BY DEF Commit, Raise
    <2>2. TypeOK /\ c \in Ingests /\ current[c] # Idle /\ current[c] \in Usernames
          /\ c \notin Usernames
      BY Facts, BrokenAreChannels DEF Basics, Commit, Raise
    <2>3. current[c] # Watched
      BY <1>2 DEF Commit, Raise, Ended, Sane
    <2>4. (Committed(c) /\ current[c] # Watched) \/ RolledBack(c)
      BY <2>3 DEF Commit, Raise
    <2>5. current' = [current EXCEPT ![c] = Idle]
      BY <2>1 DEF Ended
    <2>6. There'
      BY <1>2, <2>1 DEF Ended, There
    <2>7. DOMAIN queue' \ {current[c]} = DOMAIN queue \ {c, current[c]}
      BY <2>2, <2>4, <2>5, LeavesTheQueue
    <2>8. There
      BY <2>3, <2>6, <2>7 DEF There
    <2>9. /\ \A d \in Calls \ {c} : due'[d] = due[d] /\ processed'[d] = processed[d]
          /\ current'[c] = Idle
          /\ due'[c] = due[c] \/ (processed[c] + 1 >= PerCall /\ DOMAIN due'[c] = {})
          /\ processed'[c] = IF DOMAIN due'[c] = {} THEN 0 ELSE processed[c] + 1
      BY <2>1, <2>2, EndedKeeps
    <2>10. missed' = IF DOMAIN due'[c] = {} THEN missed + 1 ELSE missed
      BY <1>2, <2>1 DEF Ended
    <2>11. PICK old, costs, turns, paid : Accounts(old, costs, turns, paid)
      BY DEF Accounted
    <2> DEFINE k == Misses(turns, paid, c)
               x == Cardinality(Of(costs, c))
    <2>12. k \in Nat /\ x \in Nat
      BY <2>11, CountsAreNaturals DEF Accounts
    <2>13. c \in Calls \ old =>
              Fair(c, k, x) /\ Ahead' \cap Healthy \subseteq Ahead \ {current[c]}
      <3>1. SUFFICES ASSUME c \notin old
                     PROVE  Fair(c, k, x) /\ Ahead' \cap Healthy \subseteq Ahead \ {current[c]}
        OBVIOUS
      <3>2. c \notin Ahead
        BY <2>2, <2>11, <3>1 DEF Accounts, Ledger, Early
      <3>3. Ahead' \subseteq Ahead /\ (Committed(c) => current[c] \notin Ahead')
        BY <2>2, <2>3, <2>4, <2>5, <2>6, <2>8, <3>2, AheadAfter
      <3>4. Committed(c) \/ current[c] \notin Healthy
        BY DEF Commit, Raise, Healthy
      <3>5. Fair(c, k, x)
        BY <2>11, <3>1 DEF Accounts
      <3> HIDE DEF k, x
      <3> QED
        BY <3>3, <3>4, <3>5
    <2>14. c \in old => k = 0 /\ x = 0
      <3>1. SUFFICES ASSUME c \in old PROVE k = 0 /\ x = 0
        OBVIOUS
      <3>2. Of(turns, c) = {} /\ Of(paid, c) = {} /\ Of(costs, c) = {}
        BY <2>11, <3>1 DEF Accounts, Books, Ledger, Of
      <3> QED
        BY <3>2, FS_EmptySet DEF Misses
    <2> HIDE DEF k, x
    <2>15. CASE DOMAIN due'[c] = {}
      <3>1. missed' = missed + 1 /\ processed'[c] = 0
            /\ (due'[c] = due[c] \/ processed[c] + 1 >= PerCall) /\ ~Running(c)'
        BY <2>9, <2>10, <2>15 DEF Running
      <3>2. Fair(c, k + 1, x)'
        <4>1. CASE c \in old
          <5>1. Fair(c, 1, 0)'
            BY <2>9, <2>15, <3>1, FreshEnd
          <5> QED
            BY <2>14, <4>1, <5>1
        <4>2. CASE c \notin old
          BY <2>2, <2>3, <2>9, <2>12, <2>13, <2>15, <3>1, <4>2, EndKeeps
        <4> QED
          BY <4>1, <4>2
      <3> QED
        BY <2>2, <2>4, <2>5, <2>6, <2>8, <2>9, <2>11, <3>1, <3>2, CallEndedKeeps DEF k, x
    <2>16. CASE DOMAIN due'[c] # {}
      <3>1. missed' = missed /\ processed'[c] = processed[c] + 1 /\ due'[c] = due[c]
            /\ DOMAIN due[c] # {}
        BY <2>9, <2>10, <2>16
      <3>2. c \in Calls \ old => Fair(c, k, x)'
        BY <2>2, <2>3, <2>9, <2>12, <2>13, <3>1, GoesOnKeeps
      <3> QED
        BY <2>2, <2>4, <2>5, <2>6, <2>8, <2>9, <2>11, <3>1, <3>2, IngestEndedKeeps DEF k, x
    <2> QED
      BY <2>15, <2>16
  <1> QED
    BY <1>1, <1>2

(* No step breaks the accounts. *)
LEMMA AccountedStep ==
    ASSUME Basics, Basics', Sane, Accounted, [Next]_vars
    PROVE  Accounted'
  <1>1. CASE UNCHANGED vars
    <2>1. PICK old, costs, turns, paid : Accounts(old, costs, turns, paid)
      BY DEF Accounted
    <2>2. /\ missed' = missed /\ Ahead' = Ahead
          /\ \A c : due'[c] = due[c] /\ current'[c] = current[c] /\ processed'[c] = processed[c]
      BY <1>1 DEF vars, Ahead, There
    <2>3. Early' \cap Calls \subseteq old
      BY <2>1, <2>2 DEF Early, Accounts, Ledger
    <2>4. Watched \notin Calls
      BY Facts
    <2> QED
      BY <2>1, <2>2, <2>3, <2>4, NothingEndedKeeps
  <1>2. ASSUME NEW u \in Usernames, Withdrawn(u) PROVE Accounted'
    BY <1>2, WithdrawnAccounted
  <1>3. ASSUME NEW u \in Usernames, NEW j \in Jobs, JobBegins(j, u) PROVE Accounted'
    BY <1>3, JobBeginsAccounted
  <1>4. ASSUME NEW j \in Jobs, JobEnds(j) PROVE Accounted'
    BY <1>4, JobEndsAccounted
  <1>5. ASSUME NEW c \in Calls, Call(c) PROVE Accounted'
    BY <1>5, ListAccounted, BeginAccounted, CallDoneAccounted DEF Call
  <1> QED
    BY <1>1, <1>2, <1>3, <1>4, <1>5 DEF Next

(* Nothing is owed in the first state. *)
LEMMA AccountedStart == Init => Accounted
  <1> SUFFICES ASSUME Init PROVE Accounted
    OBVIOUS
  <1>1. missed = 0
    BY DEF Init
  <1>2. Accounts(Calls, {}, {}, {})
    BY <1>1, FS_EmptySet DEF Accounts, Ledger, Books
  <1> QED
    BY <1>2 DEF Accounted

(***************************************************************************)
(* The inductive invariant: in every reachable state each call that has    *)
(* ended since the last fetch of Watched, and left it out, is accounted    *)
(* for by a turn or by a fetch that another ingest committed late.         *)
(***************************************************************************)
THEOREM RefreshInvariant == Spec => []IInv
  <1>1. Init => IInv
    BY BasicsStart, AccountedStart DEF IInv
  <1>2. IInv /\ [Next]_vars => IInv'
    <2> SUFFICES ASSUME IInv, [Next]_vars PROVE IInv'
      OBVIOUS
    <2>1. Basics'
      BY BasicsStep DEF IInv
    <2>2. Sane => Accounted'
      BY <2>1, AccountedStep DEF IInv
    <2> QED
      BY <2>1, <2>2 DEF IInv
  <1> QED
    BY <1>1, <1>2, PTL DEF Spec
-----------------------------------------------------------------------------
(* The sizes of two sets that have nothing in common add up. *)
LEMMA DisjointUnion ==
    ASSUME NEW S, NEW T, IsFiniteSet(S), IsFiniteSet(T), S \cap T = {}
    PROVE  IsFiniteSet(S \cup T) /\ Cardinality(S \cup T) = Cardinality(S) + Cardinality(T)
  <1>1. Cardinality(S) \in Nat /\ Cardinality(T) \in Nat /\ Cardinality(S \cap T) = 0
    BY FS_CardinalityType, FS_EmptySet
  <1>2. /\ IsFiniteSet(S \cup T)
        /\ Cardinality(S \cup T) = Cardinality(S) + Cardinality(T) - Cardinality(S \cap T)
    BY FS_Union
  <1> QED
    BY <1>1, <1>2

(* No more than half of the pairs of a set are in a relation that never holds both ways. *)
LEMMA AsymmetricPairs ==
    ASSUME NEW S, IsFiniteSet(S), NEW A \in SUBSET (S \X S),
           \A e \in A : e[1] # e[2] /\ <<e[2], e[1]>> \notin A
    PROVE  /\ Cardinality(A) \in Nat /\ Cardinality(S) \in Nat
           /\ 2 * Cardinality(A) + Cardinality(S) <= Cardinality(S) * Cardinality(S)
  <1> DEFINE B == {<<e[2], e[1]>> : e \in A}
             D == {<<s, s>> : s \in S}
             swap == [e \in A |-> <<e[2], e[1]>>]
             double == [s \in S |-> <<s, s>>]
  <1>1. /\ IsFiniteSet(S \X S) /\ Cardinality(S \X S) = Cardinality(S) * Cardinality(S)
        /\ Cardinality(S) \in Nat
    BY FS_Product, FS_CardinalityType
  <1>2. IsFiniteSet(A) /\ Cardinality(A) \in Nat
    BY <1>1, FS_Subset, FS_CardinalityType
  <1>3. \A e \in A : e = <<e[1], e[2]>> /\ e[1] \in S /\ e[2] \in S
    OBVIOUS
  <1>4. swap \in Bijection(A, B)
    <2>1. swap \in [A -> B]
      OBVIOUS
    <2>2. \A e, f \in A : swap[e] = swap[f] => e = f
      BY <1>3
    <2>3. \A b \in B : \E e \in A : swap[e] = b
      OBVIOUS
    <2> HIDE DEF swap, B
    <2> QED
      BY <2>1, <2>2, <2>3 DEF Bijection, Injection, Surjection, IsInjective
  <1>5. double \in Bijection(S, D)
    <2>1. double \in [S -> D]
      OBVIOUS
    <2>2. \A s, t \in S : double[s] = double[t] => s = t
      OBVIOUS
    <2>3. \A d \in D : \E s \in S : double[s] = d
      OBVIOUS
    <2> HIDE DEF double, D
    <2> QED
      BY <2>1, <2>2, <2>3 DEF Bijection, Injection, Surjection, IsInjective
  <1>6. B \subseteq S \X S /\ D \subseteq S \X S
    BY <1>3
  <1>7. A \cap B = {}
    OBVIOUS
  <1>8. (A \cup B) \cap D = {}
    BY <1>3
  <1> HIDE DEF B, D, swap, double
  <1>9. /\ IsFiniteSet(B) /\ Cardinality(B) = Cardinality(A)
        /\ IsFiniteSet(D) /\ Cardinality(D) = Cardinality(S)
    BY <1>2, <1>4, <1>5, FS_Bijection DEF ExistsBijection
  <1>10. IsFiniteSet(A \cup B) /\ Cardinality(A \cup B) = Cardinality(A) + Cardinality(A)
    <2>1. Cardinality(A \cup B) = Cardinality(A) + Cardinality(B)
      BY <1>2, <1>7, <1>9, DisjointUnion, Zenon
    <2> QED
      BY <1>2, <1>7, <1>9, <2>1, DisjointUnion
  <1>11. Cardinality((A \cup B) \cup D) = Cardinality(A) + Cardinality(A) + Cardinality(S)
    BY <1>8, <1>9, <1>10, DisjointUnion
  <1>12. (A \cup B) \cup D \in SUBSET (S \X S)
    BY <1>6
  <1>13. Cardinality((A \cup B) \cup D) <= Cardinality(S \X S)
    BY <1>1, <1>12, FS_Subset
  <1> QED
    BY <1>1, <1>2, <1>11, <1>13

(***************************************************************************)
(* Half of the ordered pairs of two calls, and every pair of a call and a  *)
(* job.                                                                    *)
(***************************************************************************)
LEMMA CostsAreFew ==
    ASSUME NEW old, NEW costs, NEW turns, NEW paid, Books(old, costs, turns, paid),
           Ledger(old, costs)
    PROVE  /\ Cardinality(costs) \in Nat /\ Cardinality(Calls) \in Nat
           /\ Cardinality(Jobs) \in Nat
           /\ 2 * Cardinality(costs) + Cardinality(Calls) <=
                 Cardinality(Calls) * Cardinality(Calls)
                 + 2 * (Cardinality(Calls) * Cardinality(Jobs))
  <1> DEFINE A == costs \cap (Calls \X Calls)
             B == costs \cap (Calls \X Jobs)
  <1>1. IsFiniteSet(costs) /\ Cardinality(costs) \in Nat
    BY FiniteAccounts DEF Books
  <1>2. IsFiniteSet(Calls) /\ IsFiniteSet(Jobs)
        /\ Cardinality(Calls) \in Nat /\ Cardinality(Jobs) \in Nat
    BY Facts, FS_Subset, FS_CardinalityType
  <1>3. costs = A \cup B /\ A \cap B = {}
    BY ActorsDiffer DEF Books, AllCosts, Ingests
  <1>4. 2 * Cardinality(A) + Cardinality(Calls) <= Cardinality(Calls) * Cardinality(Calls)
        /\ Cardinality(A) \in Nat
    BY <1>2, AsymmetricPairs DEF Ledger
  <1>5. /\ IsFiniteSet(Calls \X Jobs)
        /\ Cardinality(Calls \X Jobs) = Cardinality(Calls) * Cardinality(Jobs)
    BY <1>2, FS_Product
  <1>6. Cardinality(B) <= Cardinality(Calls) * Cardinality(Jobs)
    BY <1>5, FS_Subset
  <1>7. IsFiniteSet(A) /\ IsFiniteSet(B) /\ Cardinality(B) \in Nat
    BY <1>1, FS_Subset, FS_CardinalityType
  <1> HIDE DEF A, B
  <1>8. Cardinality(costs) = Cardinality(A) + Cardinality(B)
    BY <1>3, <1>7, DisjointUnion
  <1> DEFINE n == Cardinality(Calls)
             j == Cardinality(Jobs)
             nn == n * n
             nj == n * j
  <1> HIDE DEF nn, nj
  <1> QED
    BY <1>2, <1>4, <1>6, <1>7, <1>8

(***************************************************************************)
(* No channel starves (NobodyStarves): however calls of                    *)
(* refresh_due_channels and other jobs overlap, a healthy channel is left  *)
(* out by no more calls in a row than have turns, by the order of          *)
(* list_refreshable, and by ingests that set it back, as a late commit of  *)
(* last_fetch_at does.                                                     *)
(***************************************************************************)
THEOREM NobodyIsStarved == Spec => []NobodyStarves
  <1>1. IInv => NobodyStarves
    <2> SUFFICES ASSUME IInv, Sane
                 PROVE  missed <= Cardinality(Calls) * Turns
                                  + (Cardinality(Calls) * (Cardinality(Calls) + 1)) \div 2
                                  + Cardinality(Calls) * Cardinality(Jobs)
      BY DEF NobodyStarves, Sane
    <2>1. PICK old, costs, turns, paid : Accounts(old, costs, turns, paid)
      BY DEF IInv, Accounted
    <2>2. Books(old, costs, turns, paid) /\ Ledger(old, costs)
          /\ missed = Cardinality(turns) + Cardinality(paid)
      BY <2>1 DEF Accounts
    <2> DEFINE n == Cardinality(Calls)
               j == Cardinality(Jobs)
               t == Turns
               x == Cardinality(costs)
    <2>3. x \in Nat /\ n \in Nat /\ j \in Nat /\ 2 * x + n <= n * n + 2 * (n * j)
      BY <2>2, CostsAreFew
    <2>4. Cardinality(paid) \in Nat /\ Cardinality(paid) <= x
      BY <2>2, FiniteAccounts DEF Books
    <2>5. t \in Nat
      BY TurnsAreFew
    <2>6. Cardinality(turns) \in Nat /\ Cardinality(turns) <= n * (1 + t)
      <3>1. IsFiniteSet(1 .. 1 + Turns) /\ Cardinality(1 .. 1 + Turns) = 1 + Turns
        BY <2>5, FS_Interval
      <3>2. IsFiniteSet(AllTurns) /\ Cardinality(AllTurns) = n * (1 + t)
        BY <3>1, Facts, FS_Product DEF AllTurns
      <3> QED
        BY <2>2, <3>2, FiniteAccounts DEF Books
    <2> HIDE DEF n, j, t, x
    <2>7. n * (1 + t) = n * t + n /\ n * t \in Nat /\ n * n \in Nat /\ n * j \in Nat
          /\ n * (n + 1) = n * n + n
      BY <2>3, <2>5
    <2> DEFINE nt == n * t
               nn == n * n
               nj == n * j
    <2>8. /\ nt \in Nat /\ nn \in Nat /\ nj \in Nat
          /\ 2 * x + n <= nn + 2 * nj
          /\ Cardinality(turns) <= nt + n
          /\ n * (n + 1) = nn + n
      BY <2>3, <2>6, <2>7
    <2> HIDE DEF nt, nn, nj
    <2>9. missed <= nt + (nn + n) \div 2 + nj
      BY <2>2, <2>3, <2>4, <2>6, <2>8
    <2> QED
      BY <2>8, <2>9 DEF n, j, t, nt, nj
  <1> QED
    BY <1>1, RefreshInvariant, PTL
=============================================================================
