CONSTANTS
    a = a
    b = b
    l = l
    m = m
    h = h
    Files = {a, l, m, h}
    Links = {l}
    Target <- TargetOfLinks
    NamedSha = {m}
    Hidden = {h}
    Excludes <- ExcludeA
    MaxRuns = 2
SPECIFICATION Spec
CHECK_DEADLOCK FALSE
INVARIANTS TypeOK PayloadKept OkMeansEncrypted RoundTrip MirrorComplete
