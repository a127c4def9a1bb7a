\* The counter wraps at every possible moment of a delay and of an interval.
SPECIFICATION LoopSpec
CONSTANTS
    WRAP = 12
    INTERVAL = 4
    MaxGap = 3
    MaxExecs = 2
    TimerIntervals <- Intervals
INVARIANTS
    TypeOK
    LoopTypeOK
    CallsInTime
PROPERTIES
    CallsApart
    NeverEarly
    AtMostOneMsLate
    SwitchHappens
