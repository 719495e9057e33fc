\* One key; two threads of one process and one of another, one call each: enough for
\* effect, compensation and a replay, or an effect lost and repeated, in any order.
SPECIFICATION FairSpec
CONSTANTS
    c1 = c1
    c2 = c2
    c3 = c3
    p1 = p1
    p2 = p2
    None = None
    Keys = {k1}
    Callers = {c1, c2, c3}
    Processes = {p1, p2}
    Home <- MCHome
    MaxCalls <- MCMaxCalls
INVARIANTS
    ExclusiveSection
    JournalWellFormed
    EveryRepeatExplained
    SuccessAnswersAreOnFile
PROPERTIES
    ImplementsEffectOnce
    EveryCallReturns
