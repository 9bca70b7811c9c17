CONSTANTS
    Events = {e1, e2}
    Consumers = {c1, c2}
    Pages = {p1, p2, p3}
    NoPage = NoPage
    NoEvent = NoEvent
    EVENTS_PER_PAGE = 2
    MaxStored = 6
SPECIFICATION Spec
INVARIANTS QueueInv NoPageLeak
PROPERTIES ImplementsFIFOSafety ImplementsFIFO
CHECK_DEADLOCK FALSE
