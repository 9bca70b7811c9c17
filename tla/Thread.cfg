CONSTANTS
    Main = Main
    Background = {A, B}
    Tasks = {e1, e2}
    Creators = {Main}
    Joiners = {Main, A}
    None = None
    MayFail = TRUE
    NestedShutdown = FALSE
    ManagerStops = TRUE
SPECIFICATION Spec
INVARIANTS ThreadInv AcceptedAreRun NoBackgroundThreads
PROPERTIES SyncReturns JoinsReturn
CHECK_DEADLOCK FALSE
