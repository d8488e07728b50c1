SPECIFICATION ThreadSpec
CONSTANTS
    Key = {k1, k2, k3}
    Ttls = {1, 2}
    MAX_SAMPLE = 2
PROPERTIES
    StopEndsWithJoin
    OnlyLiveEntriesStarve
