\* A guest that restores a saved map while a page shows in another window.
CONSTANTS
    EmsHandles = {0, 1}
    Windows = {0, 1}
    TotalPages = 3
    PageCounts = {0, 1, 2}
    PageValues = {0, 1}
    EmsGuests = {"restores"}
    EmsCalls = 7
SPECIFICATION EmsSpec
INVARIANT WritesSurvive
CHECK_DEADLOCK FALSE
