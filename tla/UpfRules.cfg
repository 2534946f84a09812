SPECIFICATION Spec
CONSTANTS
    web = web
    other = other
    Cap <- MCCap
    Id <- MCId
    Body <- BothBody
    Class = {web, other}
    Rate = {0, 1, 2}
    Ambr <- MCAmbr
    MaxVolume = 1
    NoPrec = 3
INVARIANTS TypeOK OneSlotPerRule MeterFollowsQer ClassifiesBest
PROPERTIES RuleSetSpec
