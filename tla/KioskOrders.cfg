SPECIFICATION FairSpec
CONSTANTS
    Orders = {o1, o2}
    Handlers = {h1, h2, h3}
    None = None
PROPERTIES StageByStage SerialStatusFollows ReadyAnnounced
CHECK_DEADLOCK FALSE
