\* The resolvers, with whatever addresses Avahi reports.
CONSTANTS
    RData <- MCRData
    IfName <- MCIfName
    LowerCase <- MCLowerCase
    Lo = 1
    IfIndexes <- MCIfIndexes
    Hostnames <- MCHostnames
    Zones = {"", "eth9"}
    Sees4In6 = TRUE
    Sizes = {0, 1}
    MaxRData = 1
    MaxStrings = 3
SPECIFICATION RecordsSpec
INVARIANT ReportedUnmapped
