\* Forms with something wrong in every part and in several, and with amounts at every
\* edge of rounding, and beyond a context of five digits.
CONSTANTS
    Forms <- SomeForms
    Capacity = 100000
    Unfit = Unfit
    NaN = NaN
    Rough = Rough
    None = None
SPECIFICATION Spec
INVARIANTS TypeOK Verdict LinesAsAsked SumIsTrue
