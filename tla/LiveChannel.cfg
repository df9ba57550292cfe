SPECIFICATION FairSpec
CONSTANTS
    Channels = {c1, c2}
    Lines = {l1, l2, l3}
    None = None
INVARIANTS WantedIsHeld LiveIsBacked
PROPERTY Redials
