CONSTANTS
    NumDrives = 2
    MaxWorkers = 1
    Unreadable = Unreadable
    Manifests <- BrokenAndTwo
    Embedded <- Nowhere
    MaxRuns = 1
    MaxScans = 1
SPECIFICATION Spec
INVARIANT FinishedIsLast
