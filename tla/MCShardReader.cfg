SPECIFICATION ReaderSpec
CONSTANTS
    Shards = {1, 2}
    Widths <- TwoWidths
    Header = 2
    MapCompressed = TRUE
    Damages = {}
    Readers = {1, 2}
    MaxReads = 3
    Junk = Junk
    Flipped = Flipped
    Unread = Unread
    Failed = Failed
INVARIANT OwnTensors
CHECK_DEADLOCK FALSE
