----------------------------- MODULE Statistics -----------------------------
(***************************************************************************)
(* What a channel page shows of the stored posts: services/stats.py and    *)
(* get_channel_analytics, detect_channel_anomalies of analytics.py, as     *)
(* operators on the rows one SELECT returns.  A row is a record with the   *)
(* post's id, its posted_at (Null if its page showed no date), the views   *)
(* of its latest snapshot (Null if there are none) and whether it has a    *)
(* text.  Floats are kept exact: each comparison is multiplied out.        *)
(***************************************************************************)
EXTENDS Integers, FiniteSets, Functions, SequencesExt

CONSTANTS
    Null,
    MinSamples, Window,     \* ANOMALY_MIN_SAMPLES, ANOMALY_WINDOW
    Limit,                  \* of the anomalies that are explained
    DayLength,              \* ticks of the clock in a day
    Series,                 \* bound: the series of views that are looked at
    Tables, Starts, Now,    \* bound: sets of rows, starts of a period, and its end
    Ties                    \* bound: orders of ids, for posts of one date

ASSUME SizesArePositive == {MinSamples, Window, Limit, DayLength} \subseteq Nat \ {0}
ASSUME NullIsNoNumber == Null \notin Int \cup (Int \X Int)
ASSUME SeriesAreViews == Series \subseteq Seq(Int \cup {Null})
ASSUME PeriodsAreTimes == Starts \subseteq Int /\ Now \in Int

(* post_id is a primary key. *)
ASSUME TablesHaveRows ==
    \A rows \in Tables :
        /\ IsFiniteSet(rows)
        /\ rows \subseteq [id : Int, posted : Int \cup {Null}, views : Int \cup {Null}, text : BOOLEAN]
        /\ \A r, s \in rows : r.id = s.id => r = s

(* A query returns the posts of one date in some order. *)
ASSUME TiesAreOrders ==
    \A tie \in Ties, rows \in Tables :
        /\ \A r \in rows : tie[r.id] \in Int
        /\ \A r, s \in rows : tie[r.id] = tie[s.id] => r = s

(* Millionths of ANOMALY_THRESHOLD, MAD_SCALE and MEAN_AD_SCALE *)
Threshold == 3500000
MadScale == 674500
MeanAdScale == 1253314

Abs(x) == IF x < 0 THEN -x ELSE x

(* sorted(data)[k - 1], of the values of a function *)
Nth(data, k) ==
    CHOOSE v \in Range(data) :
        /\ Cardinality({e \in DOMAIN data : data[e] < v}) < k
        /\ Cardinality({e \in DOMAIN data : data[e] <= v}) >= k

(* Twice statistics.median, which may end in a half *)
MedianTwice(data) ==
    LET n == Cardinality(DOMAIN data) IN Nth(data, (n + 1) \div 2) + Nth(data, n \div 2 + 1)

(* Mutant: the values are counted after those that are missing are left out. *)
IndexedLate(values) ==
    LET present == SelectSeq(values, LAMBDA v : v # Null)
    IN  {<<k, present[k]>> : k \in DOMAIN present}

Indexed(values) == {<<i, values[i]>> : i \in {i \in DOMAIN values : values[i] # Null}}

(* Those whose score reaches the threshold *)
FarOut(deviations) ==
    LET mad == MedianTwice(deviations)
        total == SumFunction(deviations)
        samples == Cardinality(DOMAIN deviations)
    IN  {e \in DOMAIN deviations :
            IF mad # 0 THEN MadScale * 2 * deviations[e] >= Threshold * mad
            ELSE total # 0 /\ MeanAdScale * samples * deviations[e] >= Threshold * total}

(* The anomalies of a series: their indexes and directions *)
DetectAnomalies(values) ==
    LET indexed == Indexed(values)
        twice == [e \in indexed |-> 2 * e[2]]
        median == MedianTwice(twice) \div 2
        deviations == [e \in indexed |-> Abs(twice[e] - median)]
    IN  IF Cardinality(indexed) < MinSamples THEN {}
        ELSE {<<e[1], IF twice[e] > median THEN "spike" ELSE "drop">> : e \in FarOut(deviations)}
-----------------------------------------------------------------------------
(* ORDER BY posted_at DESC, which puts the posts without a date first      *)
Later(r, s) ==
    \/ r.posted = Null /\ s.posted # Null
    \/ Null \notin {r.posted, s.posted} /\ r.posted > s.posted

(* Posts of one date, or without one, come in any order: tie says in which. *)
Before(r, s, tie) ==
    \/ Later(r, s)
    \/ r.posted = s.posted /\ tie[r.id] < tie[s.id]

AllPosts(rows, tie) ==
    [k \in 1 .. Cardinality(rows) |->
        CHOOSE r \in rows : Cardinality({s \in rows : Before(s, r, tie)}) = k - 1]

AnomalyWindow(rows, tie) ==
    LET posts == AllPosts(rows, tie)
    IN  SubSeq(posts, 1, IF Len(posts) < Window THEN Len(posts) ELSE Window)

Views(posts) == [i \in DOMAIN posts |-> posts[i].views]

PeriodPosts(rows, start) == {r \in rows : r.posted # Null /\ r.posted >= start}

(* get_channel_analytics: the badges of the posts in the period *)
Badges(rows, start, tie) ==
    LET window == AnomalyWindow(rows, tie)
    IN  {<<window[a[1]].id, a[2]>> :
            a \in {a \in DetectAnomalies(Views(window)) : window[a[1]] \in PeriodPosts(rows, start)}}

(* Mutant: posts without a text are left out before the indexes are used. *)
ExplainedByText(rows, tie) ==
    LET window == SelectSeq(AnomalyWindow(rows, tie), LAMBDA r : r.text)
    IN  {<<window[a[1]].id, a[2]>> :
            a \in {a \in DetectAnomalies(Views(AnomalyWindow(rows, tie))) : a[1] \in DOMAIN window}}

(* detect_channel_anomalies: what the LLM is asked to explain *)
Explained(rows, tie) ==
    LET window == AnomalyWindow(rows, tie)
        worded == {a \in DetectAnomalies(Views(window)) : window[a[1]].text}
    IN  {<<window[a[1]].id, a[2]>> :
            a \in {a \in worded : Cardinality({b \in worded : b[1] < a[1]}) < Limit}}

Viewed(posts) == {r \in posts : r.views # Null}

SumOfViews(posts) == SumFunction([r \in Viewed(posts) |-> r.views])

(* _build_channel_overview; a mean is a sum and what to divide it by. *)
Overview(rows, start) ==
    LET posts == PeriodPosts(rows, start) IN
    [posts_total |-> Cardinality(rows),
     posts_in_period |-> Cardinality(posts),
     avg_views |-> IF Viewed(posts) = {} THEN Null ELSE <<SumOfViews(posts), Cardinality(Viewed(posts))>>]

Date(t) == t \div DayLength

(* daily_points: the posts of each day, and their views *)
DailyPoints(rows, start, now) ==
    [date \in Date(start) .. Date(now) |->
        LET posts == {r \in PeriodPosts(rows, start) : Date(r.posted) = date}
        IN  [posts |-> Cardinality(posts),
             views |-> IF Viewed(posts) = {} THEN Null ELSE SumOfViews(posts)]]

(* source_health; the ages are in hours, Null for a channel never fetched. *)
Health(status, age, failures) ==
    IF status \in {"error", "not_found", "private"} \/ failures >= 3 \/ (age # Null /\ age > 12) THEN "red"
    ELSE IF status = "pending" \/ failures >= 1 \/ age = Null \/ age > 2 THEN "yellow"
    ELSE "green"
-----------------------------------------------------------------------------
(* What is meant to hold of them; ChannelPage states it as properties. *)

(* Fewer than half of the posts with views are anomalies. *)
FewAnomalies(values) ==
    LET anomalies == DetectAnomalies(values)
    IN  anomalies # {} => 2 * Cardinality(anomalies) < Cardinality(Indexed(values))

(* With a post, every one further out on its side is an anomaly. *)
OutermostFirst(values) ==
    \A a \in DetectAnomalies(values), i \in DOMAIN values :
        /\ values[i] # Null
        /\ IF a[2] = "spike" THEN values[i] >= values[a[1]] ELSE values[i] <= values[a[1]]
        => <<i, a[2]>> \in DetectAnomalies(values)

(* A post without views does not count: without it, the anomalies are the  *)
(* same posts, and those after it have moved up by one.                    *)
MissingIgnored(values) ==
    \A i \in DOMAIN values : values[i] = Null =>
        DetectAnomalies(RemoveAt(values, i))
            = {<<IF a[1] < i THEN a[1] ELSE a[1] - 1, a[2]>> : a \in DetectAnomalies(values)}

Misjudged ==
    {values \in Series : ~(MissingIgnored(values) /\ FewAnomalies(values) /\ OutermostFirst(values))}

(* The end of the window is not between posts of one date.                 *)
Uncut(rows) ==
    \A r \in rows :
        LET later == Cardinality({s \in rows : Later(s, r)})
            level == Cardinality({s \in rows : s.posted = r.posted})
        IN  later >= Window \/ later + level <= Window

(* Badges and explanations, by queries that each break ties their own way, *)
(* are of the same posts.                                                  *)
BadgesExplained(rows, start, tie, other) ==
    LET explained == Explained(rows, other)
        worded == {b \in Badges(rows, start, tie) : \E r \in rows : r.id = b[1] /\ r.text}
    IN  /\ worded \subseteq explained \/ Cardinality(explained) = Limit
        /\ \A r \in PeriodPosts(rows, start), e \in explained : e[1] = r.id => e \in worded

(* The days of the chart add up to the figures above it, but for posts of  *)
(* a day after its last one: now was read before the posts, maybe before   *)
(* midnight.                                                               *)
DailyAddsUp(rows, start) ==
    LET days == DailyPoints(rows, start, Now)
        shown == {d \in DOMAIN days : days[d].views # Null}
        figures == Overview(rows, start)
        late == {r \in PeriodPosts(rows, start) : Date(r.posted) > Date(Now)}
    IN  /\ SumFunction([d \in DOMAIN days |-> days[d].posts]) + Cardinality(late) = figures.posts_in_period
        /\ figures.posts_in_period <= figures.posts_total
        /\ IF figures.avg_views = Null THEN shown = {}
           ELSE SumFunction([d \in shown |-> days[d].views]) + SumOfViews(late) = figures.avg_views[1]

(* More failures or an older fetch never make the health look better. *)
HealthOnlyWorsens ==
    LET rank == [green |-> 0, yellow |-> 1, red |-> 2]
        ages == {Null} \cup 0 .. 13
    IN  \A status \in {"pending", "active", "error", "not_found", "private"}, f, g \in 0 .. 4, a, b \in ages :
            f <= g /\ (Null \in {a, b} => a = b) /\ (a # Null /\ b # Null => a <= b)
                => rank[Health(status, a, f)] <= rank[Health(status, b, g)]

Inconsistent ==
    {p \in Tables \X Starts :
        \/ Uncut(p[1]) /\ \E tie, other \in Ties : ~BadgesExplained(p[1], p[2], tie, other)
        \/ ~DailyAddsUp(p[1], p[2])}
=============================================================================
