SPECIFICATION Spec
CONSTANTS
    MaxErased = 0
    MaxMishaps = 0
CHECK_DEADLOCK FALSE
PROPERTIES CAWriteOnce
