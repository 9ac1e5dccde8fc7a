\* Sources are added while Poll is active.
CONSTANTS
    Sources = {s1, s2, s3}
    MaxEvents = 1
    AddDuringPoll = TRUE
    None = None
SYMMETRY SourceSymmetry
SPECIFICATION Spec
INVARIANT SourcesAsAdded
