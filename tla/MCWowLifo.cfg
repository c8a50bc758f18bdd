\* Three applications, the ends of tasks under callbacks or only without them.
CONSTANTS
    WowTaskCount = 5
    WowSchedMax = 4
    WowCallMax = 3
    WowStackRoom = 3
    WowQueueMax = 1
    WowGuests <- ThreeApps
SPECIFICATION WowSpec
INVARIANT CallbacksLifo
