SPECIFICATION Spec
CONSTANTS
    TOAST_LIMIT = 1
    Titles <- MCTitles
    Rows <- MCRows
    Objects <- MCObjects
    Retries = 1
    MaxCalls = 2
    MaxClicks = 3
    Tours <- MCTours
INVARIANT DashboardTypeOK
INVARIANT CreatedIsListed
INVARIANT OneDeletion
INVARIANT ClosedToastLeaves
CHECK_DEADLOCK FALSE
