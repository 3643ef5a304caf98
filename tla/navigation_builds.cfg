SPECIFICATION Spec
CONSTANTS
    d = d  w = w  f = f
    small = small  large = large  huge = huge
    Debug = Debug
    Gone = Gone  None = None  Bad = Bad
    Builders = {d, w}
    Daemon = d
    Files = {f}
    Texts = {small, large, huge}
    FirstTexts <- LargeText
    EditedTo = {small, huge, Gone}
    Defines <- SameDefines
    Huge = {huge}
    Size <- Sizes3
    MaxBytes = 1
    MaxEdits = 1
    MaxFaults = 1
INVARIANT ShardsAreTrue
PROPERTIES KeepsBuildPromise EventuallyWarm
CHECK_DEADLOCK FALSE
