\* Names of two pieces.
CONSTANTS
    Utf8Valid <- MCUtf8Valid
    LabelBytes = {46}
    MaxPieces = 2
    MaxLabels = 1
    MaxChars = 1
    MaxService = 1
SPECIFICATION NamesSpec
INVARIANT SlicesAnyName
