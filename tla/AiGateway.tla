------------------------------ MODULE AiGateway ------------------------------
(***************************************************************************)
(* AiGateway of services/ai/client.py: the one object of the process       *)
(* (lru_cache in web/deps.py) through which requests and background jobs   *)
(* call the LLM, each caller a coroutine.  State read at the entry of a    *)
(* call is written after its awaits, when other calls have moved it.       *)
(***************************************************************************)
EXTENDS Naturals, FiniteSets

CONSTANTS
    Callers,
    None,
    Threshold,      \* failure_threshold
    Cooldown,       \* cooldown_minutes, in ticks
    Budget,         \* daily_call_budget
    MaxRetries,     \* MAX_RETRIES
    Dates,          \* UTC days
    DateOf,         \* the day of each tick
    MaxNow,         \* bound: ticks in a behaviour
    MaxCalls        \* bound: calls admitted in a behaviour

ASSUME CallersExist == IsFiniteSet(Callers) /\ Callers # {}
ASSUME SettingsArePositive == {Threshold, Cooldown, Budget} \subseteq Nat \ {0}
ASSUME TicksHaveDates == DateOf \in [0 .. MaxNow -> Dates]
ASSUME DaysDoNotRecur ==
    \A s, t, u \in 0 .. MaxNow : s <= t /\ t <= u /\ DateOf[s] = DateOf[u] => DateOf[t] = DateOf[u]
ASSUME BoundsAreNat == {MaxRetries, MaxNow, MaxCalls} \subseteq Nat
ASSUME NoneIsNoTime == None \notin Nat

VARIABLES
    enabled,        \* whether there is a client
    now,
    failures,       \* _consecutive_failures
    openUntil,      \* _open_until
    budgetDate,     \* _budget_date
    callsToday,     \* _calls_today
    pc,             \* idle, sending, or sleeping before a retry
    attempt,        \* the loop variable of a call
    answer,         \* how the last call of a caller ended
    calls,          \* calls admitted so far
    answered,       \* history: results returned on each day
    stragglers      \* history: requests a caller sent since the circuit opened, while open

gateway == <<failures, openUntil, budgetDate, callsToday>>
vars == <<enabled, now, gateway, pc, attempt, answer, calls, answered, stragglers>>

Today == DateOf[now]

(* _circuit_open *)
CircuitOpen == openUntil # None /\ now < openUntil

InFlight == {c \in Callers : pc[c] # "idle"}

Init ==
    /\ enabled \in BOOLEAN
    /\ now = 0
    /\ failures = 0
    /\ openUntil = None
    /\ budgetDate = Today
    /\ callsToday = 0
    /\ pc = [c \in Callers |-> "idle"]
    /\ attempt = [c \in Callers |-> 0]
    /\ answer = [c \in Callers |-> None]
    /\ calls = 0
    /\ answered = [d \in Dates |-> 0]
    /\ stragglers = [c \in Callers |-> 0]
-----------------------------------------------------------------------------
Tick ==
    /\ now < MaxNow
    /\ now' = now + 1
    /\ UNCHANGED <<enabled, gateway, pc, attempt, answer, calls, answered, stragglers>>

(* _reset_daily_budget_if_needed *)
CallsCounted == IF budgetDate = Today THEN callsToday ELSE 0

ResetDailyBudget ==
    /\ budgetDate' = Today
    /\ UNCHANGED <<failures, openUntil>>

(* History: a request of c goes out. *)
Send(c) ==
    stragglers' = IF CircuitOpen THEN [stragglers EXCEPT ![c] = @ + 1] ELSE stragglers

(* Mutants: the circuit is not looked at, or the budget admits one call more. *)
AdmitsUnguarded == enabled /\ CallsCounted < Budget

AdmitsOffByOne == enabled /\ ~CircuitOpen /\ CallsCounted <= Budget

(* The checks of generate_json before its first request *)
Admits == enabled /\ ~CircuitOpen /\ CallsCounted < Budget

(* generate_json up to its first await *)
Call(c) ==
    /\ pc[c] = "idle"
    /\ calls < MaxCalls
    /\ Admits
    /\ callsToday' = CallsCounted
    /\ ResetDailyBudget
    /\ pc' = [pc EXCEPT ![c] = "sending"]
    /\ attempt' = [attempt EXCEPT ![c] = 0]
    /\ answer' = [answer EXCEPT ![c] = None]
    /\ calls' = calls + 1
    /\ Send(c)
    /\ UNCHANGED <<enabled, now, answered>>

(* generate_json raises AiUnavailableError without a request. *)
Refused(c) ==
    /\ pc[c] = "idle"
    /\ ~Admits
    /\ \/ /\ ~enabled \/ CircuitOpen
          /\ UNCHANGED gateway
       \/ /\ enabled
          /\ ~CircuitOpen
          /\ callsToday' = CallsCounted
          /\ ResetDailyBudget
    /\ answer' = [answer EXCEPT ![c] = "unavailable"]
    /\ UNCHANGED <<enabled, now, pc, attempt, calls, answered, stragglers>>

(* The await of the client, or of the sleep, is over and the call ends. *)
Return(c, outcome) ==
    /\ pc' = [pc EXCEPT ![c] = "idle"]
    /\ attempt' = [attempt EXCEPT ![c] = 0]
    /\ answer' = [answer EXCEPT ![c] = outcome]
    /\ UNCHANGED <<enabled, now, calls>>

(* Mutant: a result closes the circuit and leaves the failures counted. *)
SucceedsKeepsFailures(c) ==
    /\ pc[c] = "sending"
    /\ openUntil' = None
    /\ callsToday' = callsToday + 1
    /\ answered' = [answered EXCEPT ![Today] = @ + 1]
    /\ Return(c, "result")
    /\ UNCHANGED <<failures, budgetDate, stragglers>>

Succeeds(c) ==
    /\ pc[c] = "sending"
    /\ failures' = 0
    /\ openUntil' = None
    /\ callsToday' = callsToday + 1
    /\ answered' = [answered EXCEPT ![Today] = @ + 1]
    /\ Return(c, "result")
    /\ UNCHANGED <<budgetDate, stragglers>>

(* Mutant: one retry more than MAX_RETRIES. *)
AttemptFailsOffByOne(c) ==
    /\ pc[c] = "sending"
    /\ attempt[c] <= MaxRetries
    /\ pc' = [pc EXCEPT ![c] = "sleeping"]
    /\ UNCHANGED <<enabled, now, gateway, attempt, answer, calls, answered, stragglers>>

(* The request raises, or times out after REQUEST_TIMEOUT_SECONDS. *)
AttemptFails(c) ==
    /\ pc[c] = "sending"
    /\ attempt[c] < MaxRetries
    /\ pc' = [pc EXCEPT ![c] = "sleeping"]
    /\ UNCHANGED <<enabled, now, gateway, attempt, answer, calls, answered, stragglers>>

(* Mutant: there is always one more attempt. *)
RetryUncounted(c) ==
    /\ pc[c] = "sleeping"
    /\ pc' = [pc EXCEPT ![c] = "sending"]
    /\ UNCHANGED <<enabled, now, gateway, attempt, answer, calls, answered, stragglers>>

(* backoff_delay has passed; the circuit is not looked at again. *)
Retry(c) ==
    /\ pc[c] = "sleeping"
    /\ pc' = [pc EXCEPT ![c] = "sending"]
    /\ attempt' = [attempt EXCEPT ![c] = @ + 1]
    /\ Send(c)
    /\ UNCHANGED <<enabled, now, gateway, answer, calls, answered>>

(* The last attempt failed too. *)
GivesUp(c) ==
    /\ pc[c] = "sending"
    /\ attempt[c] = MaxRetries
    /\ failures' = failures + 1
    /\ openUntil' = IF failures' >= Threshold THEN now + Cooldown ELSE openUntil
    /\ stragglers' = IF CircuitOpen THEN stragglers ELSE [d \in Callers |-> 0]
    /\ Return(c, "unavailable")
    /\ UNCHANGED <<budgetDate, callsToday, answered>>
-----------------------------------------------------------------------------
Proceed(c) == Succeeds(c) \/ AttemptFails(c) \/ Retry(c) \/ GivesUp(c)

(* The bounds leave nothing to do, and no call is left in flight. *)
BoundsReached ==
    /\ now = MaxNow
    /\ calls = MaxCalls
    /\ InFlight = {}
    /\ UNCHANGED vars

Next == \/ Tick
        \/ \E c \in Callers : Call(c) \/ Refused(c) \/ Proceed(c)
        \/ BoundsReached

Spec == Init /\ [][Next]_vars

(* Every await of a call ends: asyncio.timeout bounds it, or it is a sleep. *)
FairSpec == Spec /\ \A c \in Callers : WF_vars(Proceed(c))
-----------------------------------------------------------------------------
(***************************************************************************)
(* Every variable keeps its type.                                          *)
(***************************************************************************)
TypeOK ==
    /\ enabled \in BOOLEAN
    /\ now \in 0 .. MaxNow
    /\ failures \in Nat
    /\ openUntil \in Nat \cup {None}
    /\ budgetDate \in Dates
    /\ callsToday \in Nat
    /\ pc \in [Callers -> {"idle", "sending", "sleeping"}]
    /\ attempt \in [Callers -> 0 .. MaxRetries]
    /\ answer \in [Callers -> {None, "result", "unavailable"}]
    /\ calls \in 0 .. MaxCalls
    /\ answered \in [Dates -> Nat]
    /\ stragglers \in [Callers -> Nat]

(***************************************************************************)
(* The circuit and the count of failures agree: whatever order calls that  *)
(* overlap end in, the circuit has been opened, and not closed by a later  *)
(* result, exactly while the failures have reached the threshold.  After   *)
(* the cooldown one more failure opens it again.                           *)
(***************************************************************************)
BreakerAgrees == openUntil # None <=> failures >= Threshold

(***************************************************************************)
(* The check of the budget and the count of a call are apart: calls that   *)
(* were admitted together may pass the budget, the "Max LLM calls per UTC  *)
(* day" of README.md:30, but by no more than the other callers.            *)
(***************************************************************************)
OvershootBounded == callsToday + Cardinality(InFlight) < Budget + Cardinality(Callers)

(***************************************************************************)
(* The calls in flight at midnight answer on the next day, and the reset   *)
(* at the next call forgets those that did: the results of a day exceed    *)
(* the budget by less than two calls of each caller.                       *)
(***************************************************************************)
AnswersBounded == \A d \in Dates : answered[d] < Budget + 2 * Cardinality(Callers)

(***************************************************************************)
(* While the circuit is open no more goes out than the retries of calls    *)
(* admitted before: at most MAX_RETRIES requests of any caller, and none   *)
(* of some caller, the one whose failure opened it.                        *)
(***************************************************************************)
StragglersBounded ==
    /\ \A c \in Callers : stragglers[c] <= MaxRetries
    /\ \E c \in Callers : stragglers[c] = 0

(***************************************************************************)
(* Every call ends, with a result or AiUnavailableError.                   *)
(***************************************************************************)
EveryCallAnswers == \A c \in Callers : pc[c] # "idle" ~> answer[c] # None /\ pc[c] = "idle"
=============================================================================
