SPECIFICATION Spec
CONSTANTS
    a = a
    b = b
    v = v
    Cases <- TwoCases
    Variants <- OneVariant
    SampleSize = 2
    MaxInvocations = 4
INVARIANT AmendedRunIsRecorded
INVARIANT RestsOnTraces
PROPERTY SuccessIsNotRepeated
CHECK_DEADLOCK FALSE
