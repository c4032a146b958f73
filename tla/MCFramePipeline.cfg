CONSTANTS
    None = None
    MaxTime = 7
    CameraGap = 2
    Period = 3
    MaxAge = 1
    Stall = 3
    StartLimit = 1
    Duration = 6
SPECIFICATION Spec
INVARIANTS NoLostWakeup FramesInOrder RateBounded Accounted StopIsHeard
CHECK_DEADLOCK FALSE
