SPECIFICATION FairSpec
CONSTANTS
    Urls = {u1, u2, bad}
    Homes = {u1}
    BadUrls = {bad}
    Scripts = {k1, k2}
    NoUrl = NoUrl
    Engines = {"native", "text"}
    MaxCommands = 3
    MaxMoves = 1
INVARIANTS NoLostWakeup TabFollowsSession LoadedHasItsPage SettledShowsTarget
PROPERTIES ResultIsItsOwn LoadingEnds ClosedViewGoes
CHECK_DEADLOCK FALSE
