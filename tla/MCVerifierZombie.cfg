CONSTANTS
    NumDrives = 2
    MaxWorkers = 1
    Unreadable = Unreadable
    Manifests <- TwoDrives
    Embedded <- Nowhere
    MaxRuns = 2
    MaxScans = 1
SPECIFICATION Spec
PROPERTY AbortStops
