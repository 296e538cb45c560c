SPECIFICATION FairSpec
CONSTANTS
    QueueSize = 2
    MaxDetections = 3
    MaxLosses = 2
    MaxCrashes = 1
PROPERTIES FeedInOrder PanelEnds
CHECK_DEADLOCK FALSE
