SPECIFICATION FairSpec
CONSTANTS
    v = v
    f = f
    Uploads <- VideoAndFrame
    Images <- OnlyFrame
    Large <- OnlyVideo
    NoUpload = NoUpload
    MaxTries = 2
    MaxUpsets <- Upsets
INVARIANTS
    TypeOK
    BoundKeepsObject
    ReadyHasThumb
PROPERTIES
    MediaPromiseKept
    ThumbSettles
    OrphansEnd
    RecallReclaims
CHECK_DEADLOCK FALSE
