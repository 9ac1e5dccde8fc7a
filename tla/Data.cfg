\* Names of up to four pieces; up to three labels with four bytes together, or six
\* labels of a service name; RDATA of up to six bytes; loopback is interface 1, and
\* interface 3 is gone.
CONSTANTS
    Utf8Valid <- MCUtf8Valid
    LabelBytes = {46, 92, 205}
    MaxPieces = 4
    MaxLabels = 3
    MaxChars = 4
    MaxService = 6
    RData <- MCRData
    IfName <- MCIfName
    LowerCase <- MCLowerCase
    Lo = 1
    IfIndexes <- MCIfIndexes
    Hostnames <- MCHostnames
    Zones = {"", "eth9"}
    Sees4In6 = TRUE
    Sizes = {0, 1, 2, 3, 9}
    MaxRData = 6
    MaxStrings = 3
SPECIFICATION DataSpec
INVARIANTS
    SliceInvertsFrom
    EqualIsCaseless
    NormalizeKeepsMeaning
    SplitInvertsJoin
    TxtDecodeExact
    AddressSurvives
    LoopbackRoundTrip
    LocalhostAnswered
