SPECIFICATION PagesSpec
CONSTANTS
    Session = {1, 2}
    Viewer = {1}
    SessionOf <- MCSessionOf
    MaxTask = 3
    Home <- MCHome
    Ttl = 1
    MaxPerSession = 2
    MaxGlobal = 2
    MaxWatches = 1
    MaxEvents = 2
    Edit = {e1}
    None = None
    MaxSaves = 2
    MaxRevision = 2
    MaxRestarts = 1
INVARIANTS
    NobodySleepsOverAChange
    TreesStayWhole
PROPERTIES
    TasksNeverGoBack
    ViewsCatchUp
    NothingUnseenIsOverwritten
CHECK_DEADLOCK FALSE
