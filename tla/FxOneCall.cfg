\* Without a fault or an eviction: does a day cost one external call?
SPECIFICATION Spec
CONSTANTS
    c1 = c1  c2 = c2  c3 = c3
    clp = clp  usd = usd  day = day
    Conversions = {c1, c2, c3}
    Currencies = {clp, usd}
    Dates = {day}
    OriginalOf <- MCOriginalOf
    BaseOf <- MCBaseOf
    DateOf <- MCDateOf
    None = None
    MaxFaults = 0
    MaxEvictions = 0
INVARIANT
    OneCallPerDate
CHECK_DEADLOCK FALSE
