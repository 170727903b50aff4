CONSTANTS
    Servers = {s1}
    Off = Off
    Hosts = {1, 2}
    Keeps = {0}
    MaxRows = 3
SPECIFICATION Spec
INVARIANTS FailureCostsARepull
