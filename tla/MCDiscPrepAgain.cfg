CONSTANTS
    a = a
    b = b
    l = l
    m = m
    h = h
    Files = {a, b, m}
    Links = {}
    Target <- TargetOfLinks
    NamedSha = {m}
    Hidden = {}
    Excludes <- NoExcludes
    MaxRuns = 2
SPECIFICATION Spec
CHECK_DEADLOCK FALSE
INVARIANT MirrorDecrypted
