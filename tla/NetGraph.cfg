SPECIFICATION GraphSpec
CONSTANTS
    Configs <- MCConfigs
    NetConfigs <- MCNetConfigs
    Fields <- MCFields
    Updates <- MCUpdates
    MaxUpdates = 2
    MaxHops = 6
INVARIANTS
    ConfigDescribesNets
    NetListIsPath
    BuildDecides
CHECK_DEADLOCK FALSE
