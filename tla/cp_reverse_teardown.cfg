CONSTANTS
    MaxIncarnation = 1
    MaxCrashes = 0
SPECIFICATION Spec
PROPERTIES
    TeardownInReverse
CHECK_DEADLOCK FALSE
