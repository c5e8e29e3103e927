SPECIFICATION FairSpec
CONSTANTS
    Subjects = {s1, s2}
    MaxMessages = 4
INVARIANTS NoSupersededMessage NewestSurvives InOrder
PROPERTIES EventuallyWritten
CHECK_DEADLOCK FALSE
