\* A process, its signals and its calls.
SPECIFICATION FairProcessSpec
CONSTANTS
    loopback = loopback
    lan = lan
    public = public
    node = node
    remote = remote
    Addr = {loopback, lan, public}
    LocalAddr = {loopback, lan}
    Loopback = {loopback}
    Name = {node, remote}
    LocalName = {node}
    Answers <- SomeAnswers
    MaxHops = 1
    NoHost = NoHost
    MaxCalls = 2
    MaxSignals = 3
INVARIANTS ProcessTypeOK OnlyLocalPeers WipedAtExit
PROPERTIES StopEnds
CHECK_DEADLOCK FALSE
