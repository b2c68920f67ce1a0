SPECIFICATION FairSpec
CONSTANTS
    NL = NL
    TEXT = TEXT
    BUF_SIZE = 4
    PIPE_SIZE = 5
PROPERTIES RecordsAreThoseWritten DropsOnlyLongLines OverrunNeedsLines ReturnsWhatItTook
    CallsReturn
