CONSTANTS
    UriSizes <- Uris
    MaxCalls = 5
CHECK_DEADLOCK FALSE
SPECIFICATION WireSpec
INVARIANTS
    ReadersSeeWhatWasMeant
    NeverAnotherClass
    SpaceSuffices
