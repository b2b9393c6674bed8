SPECIFICATION Spec
CONSTANTS
    Calls <- MCUnshadedOnly
    Messages = 3
    Nothing = Nothing
PROPERTY
    TimeoutIsHonoured
