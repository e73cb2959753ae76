\* Two opposite conversions of one day, one fault, one eviction, fair scheduling.
SPECIFICATION FairSpec
CONSTANTS
    c1 = c1  c2 = c2  c3 = c3
    clp = clp  usd = usd  day = day
    Conversions = {c1, c3}
    Currencies = {clp, usd}
    Dates = {day}
    OriginalOf <- MCOriginalOf2
    BaseOf <- MCBaseOf2
    DateOf <- MCDateOf2
    None = None
    MaxFaults = 1
    MaxEvictions = 1
INVARIANTS
    TypeOK
    AnswersOwnPair
    RatesAreQuoted
    SecondCallHasACause
    RefreshIsFree
PROPERTY
    ConversionsEnd
CHECK_DEADLOCK FALSE
