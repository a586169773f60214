CONSTANTS
    NumDrives = 1
    MaxWorkers = 1
    Unreadable = Unreadable
    Manifests <- OneBroken
    Embedded <- Nowhere
    MaxRuns = 2
    MaxScans = 1
SPECIFICATION FairSpec
PROPERTIES ScanEndsForUser RunEndsForUser ThreadsEnd
