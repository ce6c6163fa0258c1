--------------------------- MODULE AiGatewayProofs ---------------------------
(***************************************************************************)
(* Proofs about AiGateway, for any number of callers and any settings.     *)
(***************************************************************************)
EXTENDS AiGateway, FiniteSetTheorems, TLAPS

(***************************************************************************)
(* A call that sleeps has a retry left (the test before asyncio.sleep), so *)
(* while the circuit is open what a call has sent is counted by its loop,  *)
(* and somebody who sent nothing is not in a call.                         *)
(***************************************************************************)
RetriesLeft == \A c \in Callers : pc[c] = "sleeping" => attempt[c] < MaxRetries

SentByRetries ==
    /\ \A c \in Callers : /\ stragglers[c] <= MaxRetries
                          /\ CircuitOpen /\ pc[c] # "idle" => stragglers[c] <= attempt[c]
    /\ \E c \in Callers : stragglers[c] = 0 /\ (CircuitOpen => pc[c] = "idle")

IInv == TypeOK /\ RetriesLeft /\ BreakerAgrees /\ OvershootBounded /\ SentByRetries

(***************************************************************************)
(* The results of a day.  Until the first call of the day resets the       *)
(* counter, only the calls in flight at midnight answer, and they are no   *)
(* more than the callers; from then on each result is counted.  A day with *)
(* a result, or with the counter, has begun.                               *)
(***************************************************************************)
AnswersAccounted ==
    /\ budgetDate # Today => answered[Today] + Cardinality(InFlight) <= Cardinality(Callers)
    /\ budgetDate = Today => answered[Today] <= callsToday + Cardinality(Callers)
    /\ \A d \in Dates : answered[d] > 0 \/ budgetDate = d => \E t \in 0 .. now : DateOf[t] = d

AnswersInv == AnswersAccounted /\ AnswersBounded

(***************************************************************************)
(* Types of what generate_json computes from the clock and the counter.    *)
(***************************************************************************)
LEMMA DayType ==
    ASSUME TypeOK
    PROVE  Today \in Dates /\ CallsCounted \in Nat
  BY TicksHaveDates DEF TypeOK, Today, CallsCounted

(***************************************************************************)
(* One more caller in flight, or one less (generate_json entered or left). *)
(***************************************************************************)
LEMMA SubsetOfCallers ==
    ASSUME NEW S \in SUBSET Callers
    PROVE  /\ IsFiniteSet(S) /\ Cardinality(S) \in Nat
           /\ Cardinality(Callers) \in Nat /\ Cardinality(Callers) > 0
           /\ Cardinality(S) <= Cardinality(Callers)
  <1>1. Cardinality(Callers) \in Nat /\ Cardinality(Callers) # 0
    BY CallersExist, FS_CardinalityType, FS_EmptySet
  <1> QED
    BY <1>1, CallersExist, FS_Subset, FS_CardinalityType

(* A caller that returns from generate_json is one less in flight. *)
LEMMA CallerLeaves ==
    ASSUME TypeOK, NEW c \in Callers, pc[c] # "idle", pc' = [pc EXCEPT ![c] = "idle"]
    PROVE  /\ Cardinality(InFlight') = Cardinality(InFlight) - 1
           /\ Cardinality(InFlight) \in Nat /\ Cardinality(Callers) \in Nat
  <1>1. InFlight' = InFlight \ {c} /\ c \in InFlight /\ InFlight \in SUBSET Callers
    BY DEF InFlight, TypeOK
  <1>2. IsFiniteSet(InFlight) /\ Cardinality(InFlight) \in Nat /\ Cardinality(Callers) \in Nat
    BY <1>1, SubsetOfCallers
  <1>3. Cardinality(InFlight \ {c}) = Cardinality(InFlight) - 1
    BY <1>1, <1>2, FS_RemoveElement
  <1> QED
    BY <1>1, <1>2, <1>3

(***************************************************************************)
(* The gateway starts with the invariant.                                  *)
(***************************************************************************)
LEMMA GatewayStart == Init => IInv
  <1> SUFFICES ASSUME Init PROVE IInv
    OBVIOUS
  <1> USE SettingsArePositive, BoundsAreNat, TicksHaveDates, NoneIsNoTime, CallersExist DEF Init
  <1>1. TypeOK
    BY DEF TypeOK, Today
  <1>2. InFlight = {}
    BY DEF InFlight
  <1>3. OvershootBounded
    BY <1>2, FS_EmptySet, SubsetOfCallers DEF OvershootBounded
  <1>4. RetriesLeft /\ BreakerAgrees
    BY DEF RetriesLeft, BreakerAgrees
  <1>5. SentByRetries
    BY DEF SentByRetries
  <1> QED
    BY <1>1, <1>3, <1>4, <1>5 DEF IInv

(***************************************************************************)
(* A tick only ends the circuit's cooldown.                                *)
(***************************************************************************)
LEMMA TickKeeps ==
    ASSUME IInv, Tick
    PROVE  IInv'
  <1> USE SettingsArePositive, BoundsAreNat, NoneIsNoTime DEF IInv, Tick, gateway
  <1>1. TypeOK'
    BY DEF TypeOK
  <1>2. CircuitOpen' => CircuitOpen
    BY DEF TypeOK, CircuitOpen
  <1>3. RetriesLeft' /\ BreakerAgrees' /\ OvershootBounded'
    BY DEF RetriesLeft, BreakerAgrees, OvershootBounded, InFlight
  <1>4. SentByRetries'
    BY <1>2 DEF SentByRetries
  <1> QED
    BY <1>1, <1>3, <1>4

(***************************************************************************)
(* A call is admitted below the budget and with the circuit closed, so it  *)
(* sends nothing that counts against an open circuit.                      *)
(***************************************************************************)
LEMMA CallKeeps ==
    ASSUME IInv, NEW c \in Callers, Call(c)
    PROVE  IInv'
  <1> USE SettingsArePositive, BoundsAreNat, NoneIsNoTime DEF IInv, Call, ResetDailyBudget
  <1>1. ~CircuitOpen /\ ~CircuitOpen' /\ CallsCounted < Budget
    BY DEF Admits, CircuitOpen
  <1>2. stragglers' = stragglers
    BY <1>1 DEF Send
  <1>3. TypeOK'
    BY <1>2, DayType DEF TypeOK
  <1>4. RetriesLeft' /\ BreakerAgrees'
    BY DEF RetriesLeft, BreakerAgrees, TypeOK
  <1>5. OvershootBounded'
    <2>1. InFlight' \in SUBSET Callers
      BY DEF InFlight
    <2>2. Cardinality(InFlight') <= Cardinality(Callers) /\ Cardinality(InFlight') \in Nat
          /\ Cardinality(Callers) \in Nat
      BY <2>1, SubsetOfCallers
    <2> QED
      BY <1>1, <2>2, DayType DEF OvershootBounded
  <1>6. SentByRetries'
    BY <1>1, <1>2 DEF SentByRetries
  <1> QED
    BY <1>3, <1>4, <1>5, <1>6

(***************************************************************************)
(* A refusal at most starts the counter of a new day.                      *)
(***************************************************************************)
LEMMA RefusedKeeps ==
    ASSUME IInv, NEW c \in Callers, Refused(c)
    PROVE  IInv'
  <1> USE SettingsArePositive, BoundsAreNat, NoneIsNoTime
      DEF IInv, Refused, ResetDailyBudget, gateway
  <1>1. TypeOK'
    BY DayType DEF TypeOK
  <1>2. callsToday' <= callsToday /\ InFlight' = InFlight /\ callsToday' \in Nat
    BY DEF CallsCounted, InFlight, TypeOK
  <1>3. OvershootBounded'
    <2>1. InFlight \in SUBSET Callers
      BY DEF InFlight
    <2>2. Cardinality(InFlight) \in Nat /\ Cardinality(Callers) \in Nat
      BY <2>1, SubsetOfCallers
    <2> QED
      BY <1>2, <2>2 DEF OvershootBounded, TypeOK
  <1>4. RetriesLeft' /\ BreakerAgrees' /\ SentByRetries'
    BY DEF RetriesLeft, BreakerAgrees, SentByRetries, CircuitOpen
  <1> QED
    BY <1>1, <1>3, <1>4

(***************************************************************************)
(* A result closes the circuit; what it adds to the count it takes from    *)
(* the calls in flight.                                                    *)
(***************************************************************************)
LEMMA SucceedsKeeps ==
    ASSUME IInv, NEW c \in Callers, Succeeds(c)
    PROVE  IInv'
  <1> USE SettingsArePositive, BoundsAreNat, NoneIsNoTime DEF IInv, Succeeds, Return
  <1>1. TypeOK'
    BY DayType DEF TypeOK
  <1>2. RetriesLeft' /\ BreakerAgrees'
    BY DEF RetriesLeft, BreakerAgrees, TypeOK
  <1>3. OvershootBounded'
    <2>1. /\ Cardinality(InFlight') = Cardinality(InFlight) - 1
          /\ Cardinality(InFlight) \in Nat /\ Cardinality(Callers) \in Nat
      BY CallerLeaves
    <2> QED
      BY <2>1 DEF OvershootBounded, TypeOK
  <1>4. ~CircuitOpen' /\ stragglers' = stragglers
    BY DEF CircuitOpen
  <1>5. SentByRetries'
    BY <1>4 DEF SentByRetries
  <1> QED
    BY <1>1, <1>2, <1>3, <1>5

(***************************************************************************)
(* An attempt that fails is followed by a sleep only before a retry.       *)
(***************************************************************************)
LEMMA AttemptFailsKeeps ==
    ASSUME IInv, NEW c \in Callers, AttemptFails(c)
    PROVE  IInv'
  <1> USE SettingsArePositive, BoundsAreNat, NoneIsNoTime DEF IInv, AttemptFails, gateway
  <1>1. TypeOK'
    BY DEF TypeOK
  <1>2. RetriesLeft' /\ BreakerAgrees'
    BY DEF RetriesLeft, BreakerAgrees, TypeOK
  <1>3. InFlight' = InFlight
    BY DEF InFlight, TypeOK
  <1>4. OvershootBounded'
    BY <1>3 DEF OvershootBounded
  <1>5. SentByRetries'
    BY DEF SentByRetries, CircuitOpen, TypeOK
  <1> QED
    BY <1>1, <1>2, <1>4, <1>5

(***************************************************************************)
(* A retry is counted by the loop, whatever the circuit has become.        *)
(***************************************************************************)
LEMMA RetryKeeps ==
    ASSUME IInv, NEW c \in Callers, Retry(c)
    PROVE  IInv'
  <1> USE SettingsArePositive, BoundsAreNat, NoneIsNoTime DEF IInv, Retry, gateway
  <1>1. attempt[c] + 1 \in 0 .. MaxRetries /\ attempt[c] < MaxRetries
    BY DEF RetriesLeft, TypeOK
  <1>2. TypeOK'
    BY <1>1 DEF TypeOK, Send
  <1>3. RetriesLeft' /\ BreakerAgrees'
    BY DEF RetriesLeft, BreakerAgrees, TypeOK
  <1>4. InFlight' = InFlight
    BY DEF InFlight, TypeOK
  <1>5. OvershootBounded'
    BY <1>4 DEF OvershootBounded
  <1>6. SentByRetries'
    <2>1. CASE CircuitOpen
      <3>1. PICK d \in Callers : stragglers[d] = 0 /\ pc[d] = "idle"
        BY <2>1 DEF SentByRetries
      <3>2. d # c /\ stragglers'[d] = 0 /\ pc'[d] = "idle"
        BY <2>1, <3>1 DEF Send, TypeOK
      <3>3. \A b \in Callers :
               /\ stragglers'[b] <= MaxRetries
               /\ CircuitOpen' /\ pc'[b] # "idle" => stragglers'[b] <= attempt'[b]
        <4> TAKE b \in Callers
        <4>1. CASE b = c
          BY <1>1, <2>1, <4>1 DEF Send, SentByRetries, TypeOK
        <4>2. CASE b # c
          BY <2>1, <4>2 DEF Send, SentByRetries, CircuitOpen, TypeOK
        <4> QED
          BY <4>1, <4>2
      <3> QED
        BY <3>2, <3>3 DEF SentByRetries
    <2>2. CASE ~CircuitOpen
      BY <2>2 DEF Send, SentByRetries, CircuitOpen
    <2> QED
      BY <2>1, <2>2
  <1> QED
    BY <1>2, <1>3, <1>5, <1>6

(***************************************************************************)
(* A call that gives up opens the circuit when the failures have reached   *)
(* the threshold; if it was closed, the stragglers start from nothing.     *)
(***************************************************************************)
LEMMA GivesUpKeeps ==
    ASSUME IInv, NEW c \in Callers, GivesUp(c)
    PROVE  IInv'
  <1> USE SettingsArePositive, BoundsAreNat, NoneIsNoTime DEF IInv, GivesUp, Return
  <1>1. TypeOK'
    BY DEF TypeOK
  <1>2. RetriesLeft' /\ BreakerAgrees'
    BY DEF RetriesLeft, BreakerAgrees, TypeOK
  <1>3. OvershootBounded'
    <2>1. /\ Cardinality(InFlight') = Cardinality(InFlight) - 1
          /\ Cardinality(InFlight) \in Nat /\ Cardinality(Callers) \in Nat
      BY CallerLeaves
    <2> QED
      BY <2>1 DEF OvershootBounded, TypeOK
  <1>4. SentByRetries'
    <2>1. CASE CircuitOpen
      BY <2>1 DEF SentByRetries, TypeOK
    <2>2. CASE ~CircuitOpen
      BY <2>2 DEF SentByRetries, TypeOK
    <2> QED
      BY <2>1, <2>2
  <1> QED
    BY <1>1, <1>2, <1>3, <1>4

(***************************************************************************)
(* The invariant holds throughout, whatever order the calls end in.        *)
(***************************************************************************)
THEOREM GatewayInvariance == Spec => []IInv
  <1>1. IInv /\ [Next]_vars => IInv'
    <2> SUFFICES ASSUME IInv, [Next]_vars PROVE IInv'
      OBVIOUS
    <2>1. CASE UNCHANGED vars
      BY <2>1 DEF vars, gateway, IInv, TypeOK, RetriesLeft, BreakerAgrees, OvershootBounded,
                  SentByRetries, InFlight, CircuitOpen
    <2>2. CASE BoundsReached
      BY <2>1, <2>2 DEF BoundsReached
    <2> QED
      BY <2>1, <2>2, TickKeeps, CallKeeps, RefusedKeeps, SucceedsKeeps, AttemptFailsKeeps,
         RetryKeeps, GivesUpKeeps DEF Next, Proceed
  <1> QED
    BY <1>1, GatewayStart, PTL DEF Spec

(***************************************************************************)
(* The gateway is well typed, whatever its calls come to.                  *)
(***************************************************************************)
THEOREM GatewayTyped == Spec => []TypeOK
  BY GatewayInvariance, PTL DEF IInv

(***************************************************************************)
(* The circuit and the count of failures never disagree.                   *)
(***************************************************************************)
THEOREM BreakerAgreesAlways == Spec => []BreakerAgrees
  BY GatewayInvariance, PTL DEF IInv

(***************************************************************************)
(* The day's counter passes the budget by less than the number of callers. *)
(***************************************************************************)
THEOREM OvershootIsBounded == Spec => []OvershootBounded
  BY GatewayInvariance, PTL DEF IInv

(***************************************************************************)
(* While the circuit is open, only the retries of earlier calls go out.    *)
(***************************************************************************)
THEOREM OnlyRetriesStraggle == Spec => []StragglersBounded
  <1>1. IInv => StragglersBounded
    BY DEF IInv, SentByRetries, StragglersBounded
  <1> QED
    BY <1>1, GatewayInvariance, PTL

(***************************************************************************)
(* The first day has no results, and its counter is there.                 *)
(***************************************************************************)
LEMMA AnswersStart == Init => AnswersInv
  <1> SUFFICES ASSUME Init PROVE AnswersInv
    OBVIOUS
  <1>1. Cardinality(Callers) \in Nat /\ Cardinality(Callers) > 0 /\ Today \in Dates
    BY SubsetOfCallers, BoundsAreNat, TicksHaveDates DEF Init, Today
  <1>2. Budget \in Nat /\ 0 \in 0 .. now
    BY SettingsArePositive DEF Init
  <1> QED
    BY <1>1, <1>2 DEF Init, AnswersInv, AnswersAccounted, AnswersBounded, Today

(***************************************************************************)
(* Midnight: no result has been returned on the day that begins, nor has   *)
(* its counter been reset, because days do not recur.                      *)
(***************************************************************************)
LEMMA AnswersAcrossTicks ==
    ASSUME IInv, AnswersInv, Tick
    PROVE  AnswersInv'
  <1>1. InFlight' = InFlight /\ InFlight \in SUBSET Callers
    BY DEF Tick, InFlight
  <1>2. Cardinality(InFlight) \in Nat /\ Cardinality(Callers) \in Nat
        /\ Cardinality(InFlight) <= Cardinality(Callers)
    BY <1>1, SubsetOfCallers
  <1>3. /\ now \in Nat /\ now' = now + 1 /\ now' \in 0 .. MaxNow /\ now \in 0 .. MaxNow
        /\ MaxNow \in Nat
    BY BoundsAreNat DEF Tick, IInv, TypeOK
  <1>4. answered \in [Dates -> Nat] /\ Today \in Dates /\ Today' \in Dates
    BY <1>3, TicksHaveDates DEF IInv, TypeOK, Today
  <1>5. ASSUME Today' # Today
        PROVE  answered[Today'] = 0 /\ budgetDate # Today'
    <2>1. ASSUME NEW t \in 0 .. now, DateOf[t] = Today' PROVE FALSE
      <3>1. t \in 0 .. MaxNow /\ t <= now /\ now <= now'
        BY <1>3
      <3> QED
        BY <1>3, <1>5, <2>1, <3>1, DaysDoNotRecur DEF Today
    <2> QED
      BY <1>4, <2>1 DEF AnswersInv, AnswersAccounted
  <1>6. AnswersBounded'
    BY DEF Tick, AnswersInv, AnswersBounded
  <1>7. \A d \in Dates : answered'[d] > 0 \/ budgetDate' = d => \E t \in 0 .. now' : DateOf[t] = d
    BY <1>3 DEF Tick, gateway, AnswersInv, AnswersAccounted
  <1>8. CASE Today' = Today
    BY <1>1, <1>6, <1>7, <1>8 DEF Tick, gateway, AnswersInv, AnswersAccounted
  <1>9. CASE Today' # Today
    <2>1. budgetDate' # Today' /\ answered'[Today'] = 0
      BY <1>5, <1>9 DEF Tick, gateway
    <2> QED
      BY <1>1, <1>2, <1>6, <1>7, <2>1 DEF AnswersInv, AnswersAccounted
  <1> QED
    BY <1>8, <1>9

(***************************************************************************)
(* The first call of a day, or its refusal, starts the counter over: what  *)
(* it forgets is bounded by the calls that were in flight.                 *)
(***************************************************************************)
LEMMA AnswersSurviveResets ==
    ASSUME IInv, AnswersInv, callsToday' = CallsCounted, ResetDailyBudget,
           UNCHANGED <<now, answered>>
    PROVE  AnswersInv'
  <1>1. InFlight \in SUBSET Callers
    BY DEF InFlight
  <1>2. Cardinality(InFlight) \in Nat /\ Cardinality(Callers) \in Nat
    BY <1>1, SubsetOfCallers
  <1>3. Today' = Today /\ Today \in Dates /\ answered[Today] \in Nat /\ now \in 0 .. now
    BY TicksHaveDates DEF Today, IInv, TypeOK
  <1>4. answered[Today] <= CallsCounted + Cardinality(Callers)
    BY <1>2, <1>3 DEF CallsCounted, AnswersInv, AnswersAccounted
  <1>5. AnswersBounded'
    BY DEF AnswersInv, AnswersBounded
  <1>6. \A d \in Dates : answered'[d] > 0 \/ budgetDate' = d => \E t \in 0 .. now' : DateOf[t] = d
    BY <1>3 DEF ResetDailyBudget, AnswersInv, AnswersAccounted, Today
  <1> QED
    BY <1>3, <1>4, <1>5, <1>6 DEF ResetDailyBudget, AnswersInv, AnswersAccounted

(***************************************************************************)
(* A result is one of the calls in flight, and counted if the counter is   *)
(* that of the day.                                                        *)
(***************************************************************************)
LEMMA AnswersCountResults ==
    ASSUME IInv, IInv', AnswersInv, NEW c \in Callers, Succeeds(c)
    PROVE  AnswersInv'
  <1> DEFINE N == Cardinality(Callers)
  <1>1. /\ Cardinality(InFlight') = Cardinality(InFlight) - 1
        /\ Cardinality(InFlight) \in Nat /\ N \in Nat
    BY CallerLeaves DEF IInv, Succeeds, Return
  <1>2. InFlight' \in SUBSET Callers
    BY DEF InFlight
  <1>3. Cardinality(InFlight') \in Nat /\ N > 0
    BY <1>2, SubsetOfCallers
  <1>4. /\ Today' = Today /\ Today \in Dates /\ answered \in [Dates -> Nat]
        /\ now' = now /\ now \in Nat /\ now \in 0 .. MaxNow
        /\ callsToday' = callsToday + 1 /\ callsToday \in Nat
        /\ budgetDate' = budgetDate
        /\ answered' = [answered EXCEPT ![Today] = @ + 1]
    BY DayType, BoundsAreNat DEF Today, IInv, TypeOK, Succeeds, Return
  <1>5. answered'[Today] = answered[Today] + 1 /\ answered[Today] \in Nat
    BY <1>4
  <1>6. budgetDate' # Today' => answered'[Today'] + Cardinality(InFlight') <= N
    BY <1>1, <1>4, <1>5 DEF AnswersInv, AnswersAccounted
  <1>7. budgetDate' = Today' => answered'[Today'] <= callsToday' + N
    BY <1>1, <1>4, <1>5 DEF AnswersInv, AnswersAccounted
  <1>8. \A d \in Dates : answered'[d] > 0 \/ budgetDate' = d => \E t \in 0 .. now' : DateOf[t] = d
    BY <1>4 DEF AnswersInv, AnswersAccounted, Today
  <1>9. AnswersBounded'
    <2>1. Budget \in Nat /\ callsToday' + Cardinality(InFlight') < Budget + N
      BY SettingsArePositive DEF IInv, OvershootBounded
    <2>2. answered'[Today] < Budget + 2 * N
      BY <1>1, <1>3, <1>4, <1>5, <1>6, <1>7, <2>1
    <2>3. \A d \in Dates : d # Today => answered'[d] < Budget + 2 * N
      BY <1>4 DEF AnswersInv, AnswersBounded
    <2> QED
      BY <2>2, <2>3 DEF AnswersBounded
  <1> QED
    BY <1>6, <1>7, <1>8, <1>9 DEF AnswersInv, AnswersAccounted

(***************************************************************************)
(* A call that gives up, sleeps or retries returns nothing.                *)
(***************************************************************************)
LEMMA AnswersNeedResults ==
    ASSUME IInv, AnswersInv, UNCHANGED <<now, budgetDate, callsToday, answered>>,
           InFlight' = InFlight \/ Cardinality(InFlight') = Cardinality(InFlight) - 1
    PROVE  AnswersInv'
  <1>1. InFlight \in SUBSET Callers
    BY DEF InFlight
  <1>2. Cardinality(InFlight) \in Nat /\ Cardinality(Callers) \in Nat
    BY <1>1, SubsetOfCallers
  <1>3. Today' = Today /\ Today \in Dates /\ answered[Today] \in Nat
    BY DayType DEF IInv, TypeOK, Today
  <1> QED
    BY <1>2, <1>3 DEF AnswersInv, AnswersAccounted, AnswersBounded

(***************************************************************************)
(* The results of a day exceed the daily budget by less than two calls of  *)
(* each caller: those admitted together, and those in flight at midnight.  *)
(***************************************************************************)
THEOREM AnswersAreBounded == Spec => []AnswersBounded
  <1>1. IInv /\ IInv' /\ AnswersInv /\ [Next]_vars => AnswersInv'
    <2> SUFFICES ASSUME IInv, IInv', AnswersInv, [Next]_vars PROVE AnswersInv'
      OBVIOUS
    <2>1. CASE UNCHANGED vars \/ BoundsReached
      <3>1. UNCHANGED <<now, budgetDate, callsToday, answered>> /\ InFlight' = InFlight
        BY <2>1 DEF BoundsReached, vars, gateway, InFlight
      <3> QED
        BY <3>1, AnswersNeedResults
    <2>2. CASE Tick
      BY <2>2, AnswersAcrossTicks
    <2>3. ASSUME NEW c \in Callers, Call(c) \/ Refused(c) PROVE AnswersInv'
      <3>1. CASE callsToday' = CallsCounted /\ ResetDailyBudget
        BY <2>3, <3>1, AnswersSurviveResets DEF Call, Refused
      <3>2. CASE Refused(c) /\ UNCHANGED gateway
        <4>1. UNCHANGED <<now, budgetDate, callsToday, answered>> /\ InFlight' = InFlight
          BY <3>2 DEF Refused, gateway, InFlight
        <4> QED
          BY <4>1, AnswersNeedResults
      <3> QED
        BY <2>3, <3>1, <3>2 DEF Call, Refused
    <2>4. ASSUME NEW c \in Callers, Succeeds(c) PROVE AnswersInv'
      BY <2>4, AnswersCountResults
    <2>5. ASSUME NEW c \in Callers, GivesUp(c) PROVE AnswersInv'
      <3>1. Cardinality(InFlight') = Cardinality(InFlight) - 1
        BY <2>5, CallerLeaves DEF GivesUp, Return, IInv
      <3> QED
        BY <2>5, <3>1, AnswersNeedResults DEF GivesUp, Return
    <2>6. ASSUME NEW c \in Callers, AttemptFails(c) \/ Retry(c) PROVE AnswersInv'
      <3>1. InFlight' = InFlight
        BY <2>6 DEF AttemptFails, Retry, InFlight, IInv, TypeOK
      <3> QED
        BY <2>6, <3>1, AnswersNeedResults DEF AttemptFails, Retry, gateway
    <2> QED
      BY <2>1, <2>2, <2>3, <2>4, <2>5, <2>6 DEF Next, Proceed
  <1>2. AnswersInv => AnswersBounded
    BY DEF AnswersInv
  <1> QED
    BY <1>1, <1>2, AnswersStart, GatewayInvariance, PTL DEF Spec
=============================================================================
