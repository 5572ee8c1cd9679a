CONSTANTS
    Request = 3
    MaxOutput = 3
    PipeSize = 2
    Timeout = 2
    MaxWritten = 4
SPECIFICATION FairSpec
INVARIANTS AnswerIsWhole EndsInTime NothingLeft
PROPERTIES CallsEnd
