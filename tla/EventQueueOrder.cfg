\* The claim of README.md:36 against what the goroutines do.
CONSTANTS
    MaxPush = 3
    Readers = {r1}
SPECIFICATION Spec
INVARIANT InOrder
