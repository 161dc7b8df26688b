CONSTANTS
    forward = forward
    backward = backward
    stop = stop
    dance = dance
    none = none
    Texts <- StopTexts
    Garbled <- MCGarbled
    ActionFile <- StopFile
    NoAction <- none
    OtherFrames <- FramesWithoutEvent
    MaxOthers = 1
    MaxInbox = 3
    MaxUtterances = 2
    MaxTranscripts = 2
    MaxLosses = 1
    AudioFrames = 2
SPECIFICATION FairSpec
CHECK_DEADLOCK FALSE
PROPERTIES
    CommandIsCarried
