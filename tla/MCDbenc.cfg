CONSTANTS
    MaxSize = 4
    ChunkSize = 2
    AadModulus = 2
    MaxHarm = 2
    Block = 2
    Values = {1, 2}
    MaxPlain = 5
    MaxRead = 3
SPECIFICATION Spec
INVARIANTS NonceFresh PrefixOnly RoundTrip DamageRefused WholeOrRefused StreamMatchesMemory
CHECK_DEADLOCK FALSE
