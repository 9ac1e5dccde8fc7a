\* Four events, two readers, a Close at any point.  The procs and Close run;
\* no reader is obliged to read.
CONSTANTS
    MaxPush = 4
    Readers = {r1, r2}
SPECIFICATION FairSpec
INVARIANTS
    Conservation
    NoSendOnClosedChannel
    BufferNeverOvertaken
    NoLostWakeup
    IInv
PROPERTIES
    StreamRefinement
    CloseCompletes
    ReadersUnblocked
    Delivery
