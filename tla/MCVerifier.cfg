CONSTANTS
    NumDrives = 2
    MaxWorkers = 2
    Unreadable = Unreadable
    Manifests <- TwoDrives
    Embedded <- SecondDrive
    MaxRuns = 2
    MaxScans = 1
SPECIFICATION Spec
INVARIANTS TypeOK CountedOnce ResultsAreCurrent AbortIsSilent EmbeddedAfterSha
PROPERTIES NothingFromAborted
