CONSTANTS
    forward = forward
    backward = backward
    stop = stop
    dance = dance
    none = none
    Texts <- TalkTexts
    Garbled <- NoTexts
    ActionFile <- TalkFile
    NoAction <- none
    OtherFrames <- IgnoredFrames
    MaxOthers = 1
    MaxInbox = 2
    MaxUtterances = 2
    MaxTranscripts = 2
    MaxLosses = 1
    AudioFrames = 1
SPECIFICATION FairSpec
CHECK_DEADLOCK FALSE
INVARIANTS
    TypeOK
    CommandIsFinal
    LocalReplyHeard
    CloudAnswerSilenced
PROPERTIES
    MuteLifted
