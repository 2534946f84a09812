SPECIFICATION Spec
CONSTANTS
    web = web
    other = other
    Cap <- MCCap
    Id <- MCId
    Body <- OneBody
    Class = {web, other}
    Rate = {0, 1}
    Ambr <- NoAmbr
    MaxVolume = 1
    NoPrec = 3
INVARIANTS UnlimitedPasses
