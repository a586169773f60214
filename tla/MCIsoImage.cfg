CONSTANTS
    Writers = {w1, w2}
    MaxRuns = 3
    MaxEdits = 2
SPECIFICATION Spec
PROPERTIES IntactNeverInvalid ForeignKept
