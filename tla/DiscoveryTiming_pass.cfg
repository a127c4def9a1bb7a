\* A sender left over from before a stop, and the next search.
SPECIFICATION TimedSpec
CONSTANTS
    ThreadLimit = 3
    MaxSearches = 2
    MaxInbox = 1
    MaxUserSteps = 2
INVARIANTS
    TypeOK
    NamedHasAddress
PROPERTIES
    SilentWhenStopped
    
\* An activity that stays stopped rests.
CHECK_DEADLOCK FALSE
