SPECIFICATION Spec
CONSTANTS
    n1 = n1
    n2 = n2
    c1 = c1
    c2 = c2
    w1 = w1
    w2 = w2
    NoNode = NoNode
    Nodes <- MCNodes
    Calls <- MCCalls
    Workers <- MCWorkers
    WarmWorkers <- MCWarmWorkers
    MaxSamples = 1
SYMMETRY Symmetry
INVARIANTS
    TypeOK
    OneTaskPerFlight
    ChannelDiscipline
    NoLostAnswer
    WalOvershoot
    ShutdownOvershoot
