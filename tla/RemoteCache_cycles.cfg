CONSTANTS
    Servers = {s1, s2}
    Off = Off
    Hosts = {1, 2}
    Keeps = {1, 2}
    MaxRows = 3
SYMMETRY AnyServer
SPECIFICATION Spec
INVARIANTS RamFaithful CacheComplete DeletedStaysGone RevocationHolds
CONSTRAINT FollowMixes
