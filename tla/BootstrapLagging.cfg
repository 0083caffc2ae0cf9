SPECIFICATION FairSpec
CONSTANTS
    MaxErased = 1
    MaxMishaps = 1
CHECK_DEADLOCK FALSE
INVARIANTS PromptInv KeyPairMatches
PROPERTIES CookieWriteOnce MirroredCAStays Converges
