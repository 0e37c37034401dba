SPECIFICATION Spec
CONSTANTS
    u1 = u1
    u2 = u2
    b1 = b1
    b2 = b2
    n1 = n1
    ip1 = ip1
    ip2 = ip2
    a1 = a1
    B2 = B2
    Users = {u1, u2}
    Branches = {b1, b2}
    Names <- SomeNames
    Fold <- SomeFold
    Alias <- SomeAlias
    Numbers = {n1}
    Ips = {ip1, ip2}
    Inventories <- SomeInventories
    Channels = {"salon"}
    DefaultChannel = "salon"
    MaxVolume = 2
    VolumeStep = 1
    DefaultVolume = 2
    None = None
SYMMETRY Symmetry
INVARIANTS
    OneInputMode
    TargetFitsSettings
    FileHoldsSettings
PROPERTIES
    SettingsSurviveRestart
CHECK_DEADLOCK FALSE
