CONSTANTS
    good = good
    mute = mute
    Peers = {good, mute}
    Blocks = {0, 1, 2, 3, 4}
    Genesis = 0
    Parent <- MCParent
    Tips <- MCTips
    MaxUnasked <- MCMaxUnasked
    Submitted = {2, 4}
    PreferredPeers = {good}
    Responsive = {good}
    Window = 2
    MaxInTransit = 2
    KeepBlocks = 2
    StallTimeout = 0
    TimeoutBase = 0
    TimeoutPerPeer = 1
    None = None
SPECIFICATION FairSpec
INVARIANTS
    FlightMatchesQueues
    InFlightIsAsked
PROPERTIES
    DisconnectIsDeserved
    CatchesUp
