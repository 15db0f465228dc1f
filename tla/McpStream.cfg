SPECIFICATION FairSpec
CONSTANTS
    UploadSize = 2
    MaxResponse = 1
    ReplyCap = 1
    UpCap = 2
    DownCap = 1
    BodyCap = 1
INVARIANTS NoSilentTruncation CutUploadUnanswered CancelReachesJob
 
CHECK_DEADLOCK FALSE
