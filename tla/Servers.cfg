SPECIFICATION ServersSpec
CONSTANTS
    V4 = {"a4"}
    V6 = {"a6"}
    IpText <- MCIpText
    PortTexts = {"0", "1", "53", "80", "443"}
    Scenarios <- MCScenarios
    Data <- MCData
    Banner <- MCBanner
    UdpClients = {"c1", "c2"}
    UdpTargets <- MCUdpTargets
    ForwardTarget <- MCForwardTarget
    MaxDatagrams = 2
    c1 = c1
    c2 = c2
    p = p
    q = q
    Clients = {c1, c2}
    Flows <- MCFlows
    Reserved = {q}
    TTL = 2
    Capacity = 1
    ChannelSize = 1
    MaxTime = 4
    MaxPackets = 3
    MaxReplies = 1
INVARIANTS
    SessionsAccounted
    RepliesGoHome
    NoLostWakeup
    TargetPreserved
    StreamsIntact
    HandshakesAgree
    EveryoneServed
PROPERTIES
    SessionsFollowUse
CHECK_DEADLOCK FALSE
