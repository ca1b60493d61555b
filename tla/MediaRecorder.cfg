SPECIFICATION FairSpec
CONSTANTS
    Encoders = {video, audio}
    video = video
    audio = audio
    MaxInput = 2
INVARIANTS
    NeverMisused
    FileFinished
PROPERTIES
    EncodersEnd
\* A recording ends, and an encoder may wait for ever for a lost notification
\* or for the other's track.
CHECK_DEADLOCK FALSE
