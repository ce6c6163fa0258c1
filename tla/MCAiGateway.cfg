SPECIFICATION FairSpec
CONSTANTS
    None = None
    c1 = c1  c2 = c2
    Callers = {c1, c2}
    Threshold = 2
    Cooldown = 2
    Budget = 2
    MaxRetries = 2
    Dates = {0, 1}
    DateOf <- DaysOfThree
    MaxNow = 5
    MaxCalls = 6
INVARIANTS TypeOK BreakerAgrees OvershootBounded AnswersBounded StragglersBounded
PROPERTIES EveryCallAnswers
