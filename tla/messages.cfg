SPECIFICATION Spec
CONSTANTS
    Values = {0, 200}
    NestedValues = {200}
    FieldsUsed = 2
    MaxUnknown = 2
INVARIANTS
    UnsetIsDefault
    RoundTrip
    ConcatMerges
    SizesAgree
    OwnedOnce
    CopyIsEqual
