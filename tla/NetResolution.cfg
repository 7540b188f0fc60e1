SPECIFICATION FairSpec
CONSTANTS
    V4 = {"a4", "b4"}
    V6 = {"a6"}
    IpText <- MCIpText
    PortTexts = {"0", "1", "53", "443"}
    Requests = {r1, r2}
    Sources = {"s1", "s2"}
    Asked <- MCAsked
    Packets <- MCPackets
    RuleLists <- MCRuleLists
    Hosts <- MCHosts
    Reach <- MCReach
    Country <- MCCountry
    SnifferTTL = 1
    SnifferCapacity = 1
    CnameLimit = 2
    RuleCacheSize = 1
    MaxTime = 1
    MaxPackets = 2
    UdpUsers = {r2}
    MaxSends = 2
INVARIANTS
    RoutedByFirstMatch
    RecoveredWasAnswered
    ArrivesAtTarget
PROPERTIES
    ReachableConnects
CHECK_DEADLOCK FALSE
