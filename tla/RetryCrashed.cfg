SPECIFICATION Spec
CONSTANTS
    a = a
    b = b
    v = v
    Cases <- TwoCases
    Variants <- OneVariant
    SampleSize = 2
    MaxInvocations = 2
INVARIANT CrashedRunIsRetried
CHECK_DEADLOCK FALSE
