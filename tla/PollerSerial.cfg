\* Sources are added between Polls only.
CONSTANTS
    Sources = {s1, s2}
    MaxEvents = 2
    AddDuringPoll = FALSE
    None = None
SPECIFICATION FairSpec
INVARIANTS
    IInv
    SourcesAsAdded
    ReturnedInOrder
PROPERTIES
    OnlyClosedRemoved
    PollReturns
    EventReturned
    ClosedForgotten
