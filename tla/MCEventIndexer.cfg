SPECIFICATION Spec
CONSTANTS
    Pollers = {"poll"}
    Event <- MCEvent
    Blocks <- MCBlocks
    Ranges <- MCRanges
    START <- MCStart
    Scored = {"ana", "ben"}
    BATCH_SIZE = 2
    FINALITY_DEPTH = 1
    FAULTS = 1
    REORGS = 1
    REPLAYS = 1
    TROUBLE = 2
INVARIANTS IndexComplete 
PROPERTIES FeedSpec CatchesUp
