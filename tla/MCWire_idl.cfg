CONSTANTS
    UriSizes <- Uris
    MaxCalls = 4
CHECK_DEADLOCK FALSE
SPECIFICATION WireSpec
INVARIANTS
    IdlSeesWhatWasMeant
