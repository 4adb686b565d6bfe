SPECIFICATION Spec
CONSTANTS
    Null = Null
    LongMax = 1048575
    IntMax = 4095
    FloatMax = 4194304
    First <- MCFirst
    Cases <- MCCases
    MaxEdits = 2
    DateTexts <- MCDates
INVARIANTS TypeOK OccurrencesExact EventsOnTheDay OverdueWithinADay PayableOnPage MoneyExact
PROPERTIES Terminates PrefillKeeps
CHECK_DEADLOCK FALSE
